---------------------------- MODULE Spec2Model ----------------------------
(***************************************************************************)
(* Twister HTTP server core: the per-connection transaction loop of        *)
(* package server (serveConnection, prepare, the request body readers,     *)
(* Respond, Hijack, finish) over a byte stream, with the response body     *)
(* encoders and the header codec of package web.                           *)
(*                                                                         *)
(* A byte is a one-character string; a Go string or []byte is a sequence   *)
(* of bytes.  A Go error is a string, "nil" for no error.                  *)
(***************************************************************************)
EXTENDS Integers, Sequences, FiniteSets, TLC

(***************************************************************************)
(* Bounds of the model.                                                    *)
(***************************************************************************)
\* Handler calls (Read, Respond, Write, Flush, Hijack) per transaction.
MaxCalls == 3
\* Largest read buffer the handler passes to Body.Read.
MaxReadLen == 2
\* Write and Flush calls made on an encoder driven on its own.
MaxEncCalls == 3
\* Longest header value given to WriteHttpHeader alone.
MaxValueLen == 2
\* Longest payload of a websocket frame the client sends.
MaxPayload == 3
\* Largest buffer size below which every size is tried.
MaxBufferSize == 70
\* Longest URL-encoded form parsed.
MaxFormLen == 4
\* Longest websocket key tried byte by byte.
MaxKeyLen == 4
\* Longest script of Accept results the listener is given.
MaxErrs == 3
\* Accept calls Serve makes before the exploration stops.
MaxAccepts == 4

(***************************************************************************)
(* Program constants.                                                      *)
(***************************************************************************)
\* bufio.NewReader(conn): the default buffer of the connection's reader.
ReaderSize == 4096
\* const bufferSize in Respond.
bufferSize == 4096
StatusOK == 200
StatusNotModified == 304
StatusNotFound == 404
StatusBadRequest == 400
StatusMethodNotAllowed == 405
ProtocolVersion10 == 1000
ProtocolVersion11 == 1001

(***************************************************************************)
(* Bytes and strings.                                                      *)
(***************************************************************************)
UpperChars == <<"A","B","C","D","E","F","G","H","I","J","K","L","M",
                "N","O","P","Q","R","S","T","U","V","W","X","Y","Z">>
LowerChars == <<"a","b","c","d","e","f","g","h","i","j","k","l","m",
                "n","o","p","q","r","s","t","u","v","w","x","y","z">>
DigitChars == <<"0","1","2","3","4","5","6","7","8","9">>
HexChars == <<"0","1","2","3","4","5","6","7","8","9","a","b","c","d","e","f">>

Range(s) == {s[i] : i \in DOMAIN s}
Min(a, b) == IF a < b THEN a ELSE b
Max(a, b) == IF a < b THEN b ELSE a

\* Position of byte c in the table tbl, 0 when absent.
Pos(tbl, c) == IF \E i \in DOMAIN tbl : tbl[i] = c
               THEN CHOOSE i \in DOMAIN tbl : tbl[i] = c
               ELSE 0

IsUpper(c) == Pos(UpperChars, c) > 0
IsLower(c) == Pos(LowerChars, c) > 0
IsDigit(c) == Pos(DigitChars, c) > 0
ToLowerByte(c) == IF IsUpper(c) THEN LowerChars[Pos(UpperChars, c)] ELSE c
ToUpperByte(c) == IF IsLower(c) THEN UpperChars[Pos(LowerChars, c)] ELSE c
\* strings.ToLower, strings.ToUpper (ASCII)
ToLower(s) == [i \in DOMAIN s |-> ToLowerByte(s[i])]
ToUpper(s) == [i \in DOMAIN s |-> ToUpperByte(s[i])]

\* isSpace and isToken tables of the header codec (printable ASCII, HT, CR, LF).
IsSpaceByte(c) == c \in {" ", "\t", "\r", "\n"}
Separators == {" ", "\t", "\"", "(", ")", ",", "/", ":", ";", "<", "=", ">",
               "?", "@", "[", "]", "\\", "{", "}"}
IsTokenByte(c) == c \notin Separators /\ c \notin {"\r", "\n"}

\* Index of the first byte of s equal to c, 0 when there is none.
IndexByte(s, c) == IF \E i \in DOMAIN s : s[i] = c
                   THEN CHOOSE i \in DOMAIN s : s[i] = c /\ \A j \in 1..(i-1) : s[j] /= c
                   ELSE 0

\* s[from:] in Go terms with a 1-based start.
Tail1(s, from) == SubSeq(s, from, Len(s))

\* Whether pat occurs in s at 1-based position i.
MatchAt(s, pat, i) == i + Len(pat) - 1 <= Len(s) /\ SubSeq(s, i, i + Len(pat) - 1) = pat
Contains(s, pat) == \E i \in 1..(Len(s) + 1) : MatchAt(s, pat, i)
HasPrefix(s, pat) == MatchAt(s, pat, 1)
HasSuffix(s, pat) == Len(pat) <= Len(s) /\ MatchAt(s, pat, Len(s) - Len(pat) + 1)

\* strconv.Itoa for n >= 0
RECURSIVE Itoa(_)
Itoa(n) == IF n < 10 THEN <<DigitChars[n + 1]>>
           ELSE Itoa(n \div 10) \o <<DigitChars[(n % 10) + 1]>>

\* Value of an all-digit string.
RECURSIVE DigitsValue(_)
DigitsValue(s) == IF s = <<>> THEN 0
                  ELSE 10 * DigitsValue(SubSeq(s, 1, Len(s) - 1)) + (Pos(DigitChars, s[Len(s)]) - 1)

AllDigits(s) == s /= <<>> /\ \A i \in DOMAIN s : IsDigit(s[i])

\* strconv.Atoi: [ok, n]; an optional sign then decimal digits.
Atoi(s) ==
    IF s /= <<>> /\ s[1] \in {"+", "-"}
    THEN IF AllDigits(Tail(s))
         THEN [ok |-> TRUE, n |-> IF s[1] = "-" THEN 0 - DigitsValue(Tail(s)) ELSE DigitsValue(Tail(s))]
         ELSE [ok |-> FALSE, n |-> 0]
    ELSE IF AllDigits(s) THEN [ok |-> TRUE, n |-> DigitsValue(s)]
         ELSE [ok |-> FALSE, n |-> 0]

\* dehex: value of a hex digit of either case, -1 when not hex.
dehex(c) == IF Pos(HexChars, ToLowerByte(c)) > 0 THEN Pos(HexChars, ToLowerByte(c)) - 1 ELSE 0 - 1

RECURSIVE HexValue(_)
HexValue(s) == IF s = <<>> THEN 0
               ELSE 16 * HexValue(SubSeq(s, 1, Len(s) - 1)) + dehex(s[Len(s)])

\* strconv.Btoui64(s, 16): [ok, n]
Btoui64(s) == IF s /= <<>> /\ \A i \in DOMAIN s : dehex(s[i]) >= 0
              THEN [ok |-> TRUE, n |-> HexValue(s)]
              ELSE [ok |-> FALSE, n |-> 0]


(***************************************************************************)
(* The buffered reader over the connection.  The unread part of the        *)
(* stream is a byte sequence inp followed by inEnd: "eof" when the client  *)
(* has closed its side, "block" when the client sends nothing more and     *)
(* keeps the connection open (no deadline is configured, so a read past    *)
(* the data never returns).  A result's err "block" means the call never   *)
(* returns.                                                                *)
(***************************************************************************)

\* bufio.Reader.ReadSlice('\n'): the line with its delimiter; consumes it.
ReadSlice(inp, inEnd) ==
    LET i == IndexByte(inp, "\n") IN
    IF i > 0 /\ i <= ReaderSize
    THEN [line |-> SubSeq(inp, 1, i), rest |-> Tail1(inp, i + 1), err |-> "nil"]
    ELSE IF Len(inp) >= ReaderSize
    THEN [line |-> SubSeq(inp, 1, ReaderSize), rest |-> Tail1(inp, ReaderSize + 1),
          err |-> "ErrBufferFull"]
    ELSE IF inEnd = "eof"
    THEN [line |-> inp, rest |-> <<>>, err |-> "EOF"]
    ELSE [line |-> <<>>, rest |-> inp, err |-> "block"]

\* s without its last byte when that byte is c.
dropLast(s, c) == IF s /= <<>> /\ s[Len(s)] = c THEN SubSeq(s, 1, Len(s) - 1) ELSE s

\* ReadLine once ReadSlice has returned r.
lineOfSlice(r) ==
    IF r.err = "block" THEN [line |-> <<>>, isPrefix |-> FALSE, rest |-> r.rest, err |-> "block"]
    ELSE IF r.err = "ErrBufferFull"
    THEN [line |-> r.line, isPrefix |-> TRUE, rest |-> r.rest, err |-> "nil"]
    ELSE IF r.line = <<>>
    THEN [line |-> <<>>, isPrefix |-> FALSE, rest |-> r.rest, err |-> r.err]
    ELSE [line |-> dropLast(dropLast(r.line, "\n"), "\r"), isPrefix |-> FALSE,
          rest |-> r.rest, err |-> "nil"]

\* bufio.Reader.ReadLine: the line without its end-of-line bytes.
ReadLine(inp, inEnd) == lineOfSlice(ReadSlice(inp, inEnd))

\* io.ReadFull(br, p) with len(p) = k.
ReadFull(inp, inEnd, k) ==
    IF Len(inp) >= k
    THEN [data |-> SubSeq(inp, 1, k), rest |-> Tail1(inp, k + 1), err |-> "nil"]
    ELSE IF inEnd = "block"
    THEN [data |-> <<>>, rest |-> inp, err |-> "block"]
    ELSE [data |-> inp, rest |-> <<>>,
          err |-> IF inp = <<>> THEN "EOF" ELSE "ErrUnexpectedEOF"]

\* bufio.Reader.Read(p) with len(p) = k >= 1 delivering n bytes: n is any
\* count from 1 to what is there (the network may deliver less than asked).
brRead(inp, inEnd, k, n) ==
    IF inp = <<>>
    THEN [data |-> <<>>, rest |-> inp, err |-> IF inEnd = "eof" THEN "EOF" ELSE "block"]
    ELSE [data |-> SubSeq(inp, 1, Min(n, Min(k, Len(inp)))),
          rest |-> Tail1(inp, Min(n, Min(k, Len(inp))) + 1), err |-> "nil"]

(***************************************************************************)
(* Header codec.  A header map is a function from canonical names to       *)
(* sequences of values.                                                    *)
(***************************************************************************)
EmptyHeader == [k \in {} |-> <<>>]

\* Header.Get: the first value, "" when there is none.
Get(m, key) == IF key \in DOMAIN m /\ m[key] /= <<>> THEN m[key][1] ELSE <<>>

\* Header.Add
Add(m, key, value) ==
    IF key \in DOMAIN m THEN [m EXCEPT ![key] = Append(@, value)]
    ELSE [k \in DOMAIN m \cup {key} |-> IF k = key THEN <<value>> ELSE m[k]]

\* Header.Set
Set(m, key, value) == [k \in DOMAIN m \cup {key} |-> IF k = key THEN <<value>> ELSE m[k]]

\* header[key] = nil, false
Delete(m, key) == [k \in DOMAIN m \ {key} |-> m[k]]

\* HeaderNameBytes: upper-case the first byte of each hyphen-separated
\* segment and lower-case the rest.
HeaderNameBytes(p) ==
    [i \in DOMAIN p |->
        IF i = 1 \/ p[i - 1] = "-" THEN ToUpperByte(p[i]) ELSE ToLowerByte(p[i])]

\* skipBytes with IsTokenByte / IsSpaceByte: length of the leading run.
RECURSIVE skipToken(_)
skipToken(p) == IF p /= <<>> /\ IsTokenByte(p[1]) THEN 1 + skipToken(Tail(p)) ELSE 0

RECURSIVE trimWSLeft(_)
trimWSLeft(p) == IF p /= <<>> /\ IsSpaceByte(p[1]) THEN trimWSLeft(Tail(p)) ELSE p

RECURSIVE trimWSRight(_)
trimWSRight(p) == IF p /= <<>> /\ IsSpaceByte(p[Len(p)])
                  THEN trimWSRight(SubSeq(p, 1, Len(p) - 1)) ELSE p

maxLineSize == 4096
maxValueSize == 4096
maxHeaderCount == 256

\* The loop of ParseHttpHeader from a given point: m is the map so far,
\* lastKey the last header name ("" at first), headerCount the headers read.
\* err "panic" is the run-time panic of indexing an empty slice.
RECURSIVE ParseHeaderLines(_, _, _, _, _)

\* One pass of the loop on the line p, read without its end-of-line bytes;
\* rest is the stream after the line.
parseHeaderLine(p, rest, inEnd, m, lastKey, headerCount) ==
    LET cont == trimWSLeft(trimWSRight(p))
        i == skipToken(p)
        key == HeaderNameBytes(SubSeq(p, 1, i))
        afterKey == trimWSLeft(Tail1(p, i + 1))
        value == trimWSRight(trimWSLeft(Tail(afterKey)))
        folded == m[lastKey][Len(m[lastKey])] \o <<" ">> \o cont
    IN  IF p = <<>> THEN [err |-> "nil", header |-> m, rest |-> rest]
        ELSE IF Len(p) > maxLineSize THEN [err |-> "ErrLineTooLong", header |-> m, rest |-> rest]
        ELSE IF IsSpaceByte(p[1])
        THEN IF lastKey = <<>> THEN [err |-> "ErrBadHeaderLine", header |-> m, rest |-> rest]
             ELSE IF cont = <<>> THEN ParseHeaderLines(rest, inEnd, m, lastKey, headerCount)
             ELSE IF Len(folded) > maxValueSize
             THEN [err |-> "ErrHeaderTooLong", header |-> m, rest |-> rest]
             ELSE ParseHeaderLines(rest, inEnd,
                                   [m EXCEPT ![lastKey][Len(m[lastKey])] = folded],
                                   lastKey, headerCount)
        ELSE IF headerCount + 1 > maxHeaderCount
        THEN [err |-> "ErrHeadersTooLong", header |-> m, rest |-> rest]
        ELSE IF i < 1 THEN [err |-> "ErrBadHeaderLine", header |-> m, rest |-> rest]
        ELSE IF afterKey = <<>> THEN [err |-> "panic", header |-> m, rest |-> rest]
        ELSE IF afterKey[1] /= ":" THEN [err |-> "ErrBadHeaderLine", header |-> m, rest |-> rest]
        ELSE ParseHeaderLines(rest, inEnd, Add(m, key, value), key, headerCount + 1)

ParseHeaderLines(inp, inEnd, m, lastKey, headerCount) ==
    LET r == ReadSlice(inp, inEnd) IN
    IF r.err /= "nil"
    THEN [err |-> IF r.err = "ErrBufferFull" THEN "ErrLineTooLong"
                  ELSE IF r.err = "EOF" THEN "ErrUnexpectedEOF" ELSE r.err,
          header |-> m, rest |-> r.rest]
    ELSE parseHeaderLine(IF Len(r.line) >= 2 /\ r.line[Len(r.line) - 1] = "\r"
                         THEN SubSeq(r.line, 1, Len(r.line) - 2)
                         ELSE SubSeq(r.line, 1, Len(r.line) - 1),
                         r.rest, inEnd, m, lastKey, headerCount)

\* Header.ParseHttpHeader on an empty map.
ParseHttpHeader(inp, inEnd) == ParseHeaderLines(inp, inEnd, EmptyHeader, <<>>, 0)

\* Header.GetList: the comma-separated items of all values of a header;
\* commas inside quoted strings do not separate.  st is the scanner state
\* [begin, end, escape, quote] with 1-based begin and exclusive end.
RECURSIVE GetListScan(_, _, _, _)
GetListScan(s, i, st, acc) ==
    IF i > Len(s)
    THEN IF st.begin < st.end THEN Append(acc, SubSeq(s, st.begin, st.end - 1)) ELSE acc
    ELSE LET b == s[i] IN
         IF st.escape
         THEN GetListScan(s, i + 1, [st EXCEPT !.escape = FALSE, !.end = i + 1], acc)
         ELSE IF st.quote
         THEN GetListScan(s, i + 1,
                  [st EXCEPT !.escape = (b = "\\"), !.quote = (b /= "\""), !.end = i + 1], acc)
         ELSE IF b = "\""
         THEN GetListScan(s, i + 1, [st EXCEPT !.quote = TRUE, !.end = i + 1], acc)
         ELSE IF IsSpaceByte(b)
         THEN IF st.begin = st.end
              THEN GetListScan(s, i + 1, [st EXCEPT !.begin = i + 1, !.end = i + 1], acc)
              ELSE GetListScan(s, i + 1, st, acc)
         ELSE IF b = ","
         THEN GetListScan(s, i + 1, [st EXCEPT !.begin = i + 1, !.end = i + 1],
                          Append(acc, SubSeq(s, st.begin, st.end - 1)))
         ELSE GetListScan(s, i + 1, [st EXCEPT !.end = i + 1], acc)

RECURSIVE GetListValues(_, _)
GetListValues(values, acc) ==
    IF values = <<>> THEN acc
    ELSE GetListValues(Tail(values),
            GetListScan(values[1], 1,
                        [begin |-> 1, end |-> 1, escape |-> FALSE, quote |-> FALSE], acc))

GetList(m, key) == IF key \in DOMAIN m THEN GetListValues(m[key], <<>>) ELSE <<>>

\* A replacement that leaves line feeds in the value.
SafeValueCrOnly(v) == [i \in DOMAIN v |-> IF v[i] = "\r" THEN " " ELSE v[i]]
\* The bytes WriteHttpHeader writes for one value: CR and LF become spaces.
SafeValue(v) == [i \in DOMAIN v |-> IF v[i] \in {"\r", "\n"} THEN " " ELSE v[i]]

RECURSIVE WriteValues(_, _)
WriteValues(key, values) ==
    IF values = <<>> THEN <<>>
    ELSE key \o <<":", " ">> \o SafeValue(values[1]) \o <<"\r", "\n">>
         \o WriteValues(key, Tail(values))

\* Header.WriteHttpHeader, the keys visited in the given order (Go leaves
\* the iteration order of a map unspecified).
RECURSIVE WriteHeaderKeys(_, _)
WriteHeaderKeys(m, order) ==
    IF order = <<>> THEN <<"\r", "\n">>
    ELSE WriteValues(order[1], m[order[1]]) \o WriteHeaderKeys(m, Tail(order))

WriteHttpHeader(m, order) == WriteHeaderKeys(m, order)

\* The orders in which a map with the given key set can be iterated.
KeyOrders(keys) ==
    {o \in [1..Cardinality(keys) -> keys] : \A i, j \in DOMAIN o : i /= j => o[i] /= o[j]}


(***************************************************************************)
(* Names and literals.                                                     *)
(***************************************************************************)
CRLF == <<"\r", "\n">>
HeaderConnection == <<"C","o","n","n","e","c","t","i","o","n">>
HeaderContentLength == <<"C","o","n","t","e","n","t","-","L","e","n","g","t","h">>
HeaderContentType == <<"C","o","n","t","e","n","t","-","T","y","p","e">>
HeaderLocation == <<"L","o","c","a","t","i","o","n">>
HeaderOrigin == <<"O","r","i","g","i","n">>
HeaderUpgrade == <<"U","p","g","r","a","d","e">>
SecWebsocket == <<"S","e","c","-","W","e","b","s","o","c","k","e","t","-">>
HeaderSecWebSocketKey1 == SecWebsocket \o <<"K","e","y","1">>
HeaderSecWebSocketKey2 == SecWebsocket \o <<"K","e","y","2">>
HeaderSecWebSocketProtocol == SecWebsocket \o <<"P","r","o","t","o","c","o","l">>
HeaderSecWebsocketLocation == SecWebsocket \o <<"L","o","c","a","t","i","o","n">>
HeaderSecWebsocketOrigin == SecWebsocket \o <<"O","r","i","g","i","n">>
sUpgrade == <<"u","p","g","r","a","d","e">>
sWebsocket == <<"w","e","b","s","o","c","k","e","t">>
HeaderTransferEncoding ==
    <<"T","r","a","n","s","f","e","r","-","E","n","c","o","d","i","n","g">>
HeaderExpect == <<"E","x","p","e","c","t">>
HeaderHost == <<"H","o","s","t">>
sClose == <<"c","l","o","s","e">>
sKeepAlive == <<"k","e","e","p","-","a","l","i","v","e">>
sChunked == <<"c","h","u","n","k","e","d">>
s100Continue == <<"1","0","0","-","c","o","n","t","i","n","u","e">>
sGET == <<"G","E","T">>
sHEAD == <<"H","E","A","D">>
sPOST == <<"P","O","S","T">>
sHTTP == <<"H","T","T","P","/">>
sGzip == <<"g","z","i","p">>
sTextHtml == <<"t","e","x","t","/","h","t","m","l"," ","c","h","a","r","s","e","t","=","u","t","f","-","8">>
Continue100 == <<"H","T","T","P","/","1",".","1"," ","1","0","0"," ",
                 "C","o","n","t","i","n","u","e","\r","\n","\r","\n">>

\* web.StatusText for the statuses the model's handlers use.
StatusText(status) ==
    IF status = StatusOK THEN <<"O","K">>
    ELSE IF status = StatusNotModified THEN <<"N","o","t"," ","M","o","d","i","f","i","e","d">>
    ELSE IF status = StatusNotFound THEN <<"N","o","t"," ","F","o","u","n","d">>
    ELSE IF status = StatusBadRequest THEN <<"B","a","d"," ","R","e","q","u","e","s","t">>
    ELSE IF status = StatusMethodNotAllowed
    THEN <<"M","e","t","h","o","d"," ","N","o","t"," ","A","l","l","o","w","e","d">>
    ELSE <<"S","t","a","t","u","s"," ">> \o Itoa(status)

\* web.ProtocolVersion
ProtocolVersion(major, minor) == major * 1000 + (IF minor > 999 THEN 999 ELSE minor)

(***************************************************************************)
(* Request line.                                                           *)
(***************************************************************************)
IsMethodByte(c) == c = "_" \/ IsUpper(c) \/ IsLower(c) \/ IsDigit(c)

\* Length of the leading run of decimal digits.
RECURSIVE skipDigits(_)
skipDigits(p) == IF p /= <<>> /\ IsDigit(p[1]) THEN 1 + skipDigits(Tail(p)) ELSE 0

\* requestLineRegexp:
\*   ^([_A-Za-z0-9]+) ([^ ]+) HTTP/([0-9]+)\.([0-9]+)[\r\n ]+$
\* [ok, method, url, major, minor]
MatchRequestLine(p) ==
    LET no == [ok |-> FALSE, method |-> <<>>, url |-> <<>>, major |-> <<>>, minor |-> <<>>]
        i1 == IndexByte(p, " ")
        method == SubSeq(p, 1, i1 - 1)
        rest1 == Tail1(p, i1 + 1)
        i2 == IndexByte(rest1, " ")
        url == SubSeq(rest1, 1, i2 - 1)
        rest2 == Tail1(rest1, i2 + 1)
        rest3 == Tail1(rest2, Len(sHTTP) + 1)
        n1 == skipDigits(rest3)
        rest4 == Tail1(rest3, n1 + 1)
        rest5 == Tail(rest4)
        n2 == skipDigits(rest5)
        trail == Tail1(rest5, n2 + 1)
    IN  IF i1 < 2 \/ \E k \in DOMAIN method : ~IsMethodByte(method[k]) THEN no
        ELSE IF i2 < 2 THEN no
        ELSE IF ~HasPrefix(rest2, sHTTP) \/ n1 < 1 THEN no
        ELSE IF rest4 = <<>> \/ rest4[1] /= "." \/ n2 < 1 THEN no
        ELSE IF trail = <<>> \/ \E k \in DOMAIN trail : trail[k] \notin {"\r", "\n", " "} THEN no
        ELSE [ok |-> TRUE, method |-> method, url |-> url,
              major |-> SubSeq(rest3, 1, n1), minor |-> SubSeq(rest5, 1, n2)]

\* readRequestLine: [err, method, url, version, rest]
\* readRequestLine once the line is read (r) and matched (m).
requestLineOf(r, m) ==
    LET bad(e) == [err |-> e, method |-> <<>>, url |-> <<>>, version |-> 0, rest |-> r.rest]
    IN  IF r.err /= "nil"
        THEN bad(IF r.err = "ErrBufferFull" THEN "ErrLineTooLong" ELSE r.err)
        ELSE IF ~m.ok THEN bad("ErrBadRequestLine")
        ELSE [err |-> "nil", method |-> m.method, url |-> m.url,
              version |-> ProtocolVersion(DigitsValue(m.major), DigitsValue(m.minor)),
              rest |-> r.rest]

readRequestLine(inp, inEnd) ==
    LET r == ReadSlice(inp, inEnd) IN requestLineOf(r, MatchRequestLine(r.line))

\* The percent escapes of a URL or a query: TRUE when some '%' is not
\* followed by two hex digits (http.ParseURL and ParseFormEncodedBytes fail).
BadEscape(s) ==
    \E i \in DOMAIN s :
        s[i] = "%" /\ (i + 2 > Len(s) \/ dehex(s[i + 1]) < 0 \/ dehex(s[i + 2]) < 0)

\* The byte with the given value: the printable ones (the grave accent, 96,
\* by its number), the byte 0, and one name for every other value.
Ascii ==
    <<" ","!","\"","#","$","%","&","'","(",")","*","+",",","-",".","/",
      "0","1","2","3","4","5","6","7","8","9",":",";","<","=",">","?",
      "@","A","B","C","D","E","F","G","H","I","J","K","L","M","N","O",
      "P","Q","R","S","T","U","V","W","X","Y","Z","[","\\","]","^","_",
      "<96>","a","b","c","d","e","f","g","h","i","j","k","l","m","n","o",
      "p","q","r","s","t","u","v","w","x","y","z","{","|","}","~">>
ByteOf(n) ==
    IF n >= 32 /\ n <= 126 THEN Ascii[n - 31] ELSE IF n = 0 THEN "<0>" ELSE "<bin>"

\* p[j] = c for the 0-based j, which is never past the byte being read.
putByte(p, j, c) == [p EXCEPT ![j + 1] = c]

\* The loop of ParseFormEncodedBytes: i and j are the 0-based positions, key
\* the name of the item being read, m the map.  [m, err]
RECURSIVE formScan(_, _, _, _, _)
formScan(p, i, j, key, m) ==
    IF i >= Len(p)
    THEN [m |-> IF key /= <<>> THEN Add(m, key, SubSeq(p, 1, j)) ELSE m, err |-> "nil"]
    ELSE IF p[i + 1] = "=" THEN formScan(p, i + 1, 0, SubSeq(p, 1, j), m)
    ELSE IF p[i + 1] = "&" THEN formScan(p, i + 1, 0, <<>>, Add(m, key, SubSeq(p, 1, j)))
    ELSE IF p[i + 1] = "%"
    THEN IF i + 2 >= Len(p) THEN [m |-> m, err |-> "ErrBadFormat"]
         ELSE IF dehex(p[i + 2]) < 0 \/ dehex(p[i + 3]) < 0
         THEN [m |-> m, err |-> "ErrBadFormat"]
         ELSE formScan(putByte(p, j, ByteOf((dehex(p[i + 2]) * 16) + dehex(p[i + 3]))),
                       i + 3, j + 1, key, m)
    ELSE IF p[i + 1] = "+" THEN formScan(putByte(p, j, " "), i + 1, j + 1, key, m)
    ELSE formScan(putByte(p, j, p[i + 1]), i + 1, j + 1, key, m)

\* ParamMap.ParseFormEncodedBytes(p) on the map m: [m, err]
ParseFormEncodedBytes(m, p) == formScan(p, 0, 0, <<>>, m)

\* web.NewRequest: the request fields the server reads back.
\* method is the method as it stands on the request line.
NewRequest(method, url, version, header) ==
    LET cl == Atoi(Get(header, HeaderContentLength)) IN
    IF BadEscape(url) THEN [err |-> "ErrBadFormat"]
    ELSE IF Get(header, HeaderContentLength) /= <<>> /\ ~cl.ok
    THEN [err |-> "bad content length"]
    ELSE [err |-> "nil",
          Method |-> ToUpper(method),
          ProtocolVersion |-> version,
          Header |-> header,
          ContentLength |->
              IF Get(header, HeaderContentLength) /= <<>> THEN cl.n
              ELSE IF method /= sHEAD /\ method /= sGET THEN 0 - 1
              ELSE 0]


(***************************************************************************)
(* The connection's write side.  broken: the peer is gone and every        *)
(* conn.Write fails.                                                       *)
(***************************************************************************)
connWrite(o, broken, p) ==
    IF broken THEN [n |-> 0, err |-> "EPIPE", out |-> o]
    ELSE [n |-> Len(p), err |-> "nil", out |-> o \o p]

(***************************************************************************)
(* Response body encoders.  One record shape serves the three kinds:       *)
(*   kind          "null", "identity" or "chunked"                         *)
(*   err           the encoder's err field                                 *)
(*   written       nullResponseBody.written / identityResponseBody.written *)
(*                 / chunkedResponseBody.written                           *)
(*   headerWritten identityResponseBody.headerWritten                      *)
(*   contentLength identityResponseBody.contentLength                      *)
(*   size          len(buf) of the chunked encoder, the bufio.Writer's     *)
(*                 size of the identity encoder                            *)
(*   buf           chunked: the bytes of buf up to the highest index ever  *)
(*                 written (the rest of buf is still zero);                *)
(*                 identity: the bytes buffered in the bufio.Writer        *)
(*   s, n, ndigit  chunkedResponseBody.s, .n, .ndigit                      *)
(* An operation returns [w, out, n, err, panic]: the encoder after it, the *)
(* bytes on the wire after it, its results, and whether it ended in a      *)
(* run-time panic (an index or slice bound outside buf).                   *)
(***************************************************************************)
Zero == "<0>"

blankBody ==
    [kind |-> "null", err |-> "nil", written |-> 0, headerWritten |-> 0,
     contentLength |-> 0 - 1, size |-> 0, buf |-> <<>>, s |-> 0, n |-> 0, ndigit |-> 0]

Res(w, o, n, err) == [w |-> w, out |-> o, n |-> n, err |-> err, panic |-> FALSE]
Panicked(w, o) == [w |-> w, out |-> o, n |-> 0, err |-> "panic", panic |-> TRUE]

\* &nullResponseBody{err: web.ErrInvalidState}
invalidStateBody == [blankBody EXCEPT !.err = "ErrInvalidState"]

\* ---- nullResponseBody
newNullResponseBody(o, broken, header) ==
    LET r == connWrite(o, broken, header) IN
    Res([blankBody EXCEPT !.written = r.n, !.err = r.err], r.out, r.n, r.err)

nullWrite(w, o, broken, p) ==
    IF w.err /= "nil" THEN Res(w, o, 0, w.err) ELSE Res(w, o, Len(p), "nil")

nullFlush(w, o, broken) == Res(w, o, 0, w.err)

nullFinish(w, o, broken) ==
    Res([w EXCEPT !.err = IF w.err = "nil" THEN "ErrInvalidState" ELSE w.err],
        o, w.written, w.err)

\* ---- bufio.Writer inside the identity encoder: Flush and Write.
\* [buf, err, out]
bufioFlush(buf, err, o, broken) ==
    IF err /= "nil" \/ buf = <<>> THEN [buf |-> buf, err |-> err, out |-> o]
    ELSE LET r == connWrite(o, broken, buf) IN
         [buf |-> Tail1(buf, r.n + 1), err |-> r.err, out |-> r.out]

\* [buf, err, out, nn]
RECURSIVE bufioWrite(_, _, _, _, _, _, _)
bufioWrite(buf, err, size, p, nn, o, broken) ==
    IF err /= "nil" \/ p = <<>> THEN [buf |-> buf, err |-> err, out |-> o, nn |-> nn]
    ELSE IF size - Len(buf) <= 0
    THEN LET f == bufioFlush(buf, err, o, broken) IN
         IF f.err /= "nil" THEN [buf |-> f.buf, err |-> f.err, out |-> f.out, nn |-> nn]
         ELSE bufioWrite(f.buf, f.err, size, p, nn, f.out, broken)
    ELSE IF buf = <<>> /\ Len(p) >= size
    THEN LET r == connWrite(o, broken, p) IN
         [buf |-> buf, err |-> r.err, out |-> r.out, nn |-> nn + r.n]
    ELSE LET n == Min(size - Len(buf), Len(p)) IN
         bufioWrite(buf \o SubSeq(p, 1, n), err, size, Tail1(p, n + 1), nn + n, o, broken)

\* ---- identityResponseBody
newIdentityResponseBody(o, broken, header, bufSize, contentLength) ==
    LET b == bufioWrite(<<>>, "nil", bufSize, header, 0, o, broken) IN
    Res([blankBody EXCEPT !.kind = "identity", !.contentLength = contentLength,
                          !.size = bufSize, !.buf = b.buf, !.headerWritten = b.nn,
                          !.err = b.err],
        b.out, b.nn, b.err)

identityWrite(w, o, broken, p) ==
    IF w.err /= "nil" THEN Res(w, o, 0, w.err)
    ELSE LET b == bufioWrite(w.buf, "nil", w.size, p, 0, o, broken)
             written == w.written + b.nn
             err == IF b.err = "nil" /\ w.contentLength >= 0 /\ written > w.contentLength
                    THEN "long write" ELSE b.err
         IN  Res([w EXCEPT !.buf = b.buf, !.written = written, !.err = err], b.out, b.nn, err)

identityFlush(w, o, broken) ==
    IF w.err /= "nil" THEN Res(w, o, 0, w.err)
    ELSE LET f == bufioFlush(w.buf, "nil", o, broken) IN
         Res([w EXCEPT !.buf = f.buf, !.err = f.err], f.out, 0, f.err)

\* finish that does not compare the bytes written with the declared length.
identityFinishAnyLength(w, o, broken) ==
    LET f == identityFlush(w, o, broken) IN
    IF f.w.err /= "nil" THEN Res(f.w, f.out, f.w.headerWritten + f.w.written, f.w.err)
    ELSE Res([f.w EXCEPT !.err = "ErrInvalidState"],
             f.out, f.w.headerWritten + f.w.written, "nil")
identityFinish(w, o, broken) ==
    LET f == identityFlush(w, o, broken)
        short == f.w.contentLength >= 0 /\ f.w.written < f.w.contentLength
        err == IF short THEN "short write" ELSE "nil"
    IN  IF f.w.err /= "nil" THEN Res(f.w, f.out, f.w.headerWritten + f.w.written, f.w.err)
        ELSE Res([f.w EXCEPT !.err = IF err = "nil" THEN "ErrInvalidState" ELSE err],
                 f.out, f.w.headerWritten + f.w.written, err)

\* ---- chunkedResponseBody
\* buf[i] for a 0-based index i.
bufAt(buf, i) == IF i + 1 <= Len(buf) THEN buf[i + 1] ELSE Zero

\* buf[:n], 0 <= n <= len(buf)
bufPrefix(buf, n) == [i \in 1..n |-> bufAt(buf, i - 1)]

\* copy(buf[at:], p) into a buffer of the given size: copies what fits.
bufCopy(buf, size, at, p) ==
    LET k == Min(Len(p), size - at) IN
    [i \in 1..Max(Len(buf), at + k) |->
        IF i - 1 >= at /\ i - 1 < at + k THEN p[i - at] ELSE bufAt(buf, i - 1)]

\* The fixed-width hex length written by finalizeChunk: ndigit digits of cnt.
RECURSIVE hexPad(_, _)
hexPad(cnt, ndigit) ==
    IF ndigit = 0 THEN <<>>
    ELSE hexPad(cnt \div 16, ndigit - 1) \o <<HexChars[(cnt % 16) + 1]>>

\* Number of hex digits of bufferSize: for n := int32(bufferSize); n != 0; n >>= 4
RECURSIVE countDigits(_)
countDigits(n) == IF n = 0 THEN 0 ELSE 1 + countDigits(n \div 16)

\* newChunkedResponseBody with a length prefix one digit narrower.
newChunkedResponseBodyNarrow(o, broken, header, bufSize) ==
    LET ndigit == countDigits(bufSize \div 16)
        fits == Len(header) < bufSize
        r == IF fits THEN [n |-> 0, err |-> "nil", out |-> o] ELSE connWrite(o, broken, header)
        n0 == IF fits THEN Len(header) ELSE 0
    IN  Res([blankBody EXCEPT !.kind = "chunked", !.size = bufSize, !.ndigit = ndigit,
                              !.buf = IF fits THEN header ELSE <<>>,
                              !.written = r.n, !.err = r.err,
                              !.s = n0, !.n = n0 + ndigit + 2],
            r.out, r.n, r.err)
\* newChunkedResponseBody: [w, out, n, err]
newChunkedResponseBody(o, broken, header, bufSize) ==
    LET ndigit == countDigits(bufSize)
        fits == Len(header) < bufSize
        r == IF fits THEN [n |-> 0, err |-> "nil", out |-> o] ELSE connWrite(o, broken, header)
        n0 == IF fits THEN Len(header) ELSE 0
    IN  Res([blankBody EXCEPT !.kind = "chunked", !.size = bufSize, !.ndigit = ndigit,
                              !.buf = IF fits THEN header ELSE <<>>,
                              !.written = r.n, !.err = r.err,
                              !.s = n0, !.n = n0 + ndigit + 2],
            r.out, r.n, r.err)

\* writeBuf: [w, out, panic]
writeBuf(w, o, broken) ==
    IF w.n > w.size THEN Panicked(w, o)
    ELSE LET r == connWrite(o, broken, bufPrefix(w.buf, w.n)) IN
         Res([w EXCEPT !.written = w.written + r.n, !.err = r.err], r.out, r.n, r.err)

\* finalizeChunk without the test for an empty chunk.
finalizeChunkAlways(w) ==
    IF w.n + 1 >= w.size THEN [w |-> w, panic |-> TRUE]
    ELSE LET cnt == w.n - w.s - w.ndigit - 2
             b1 == bufCopy(w.buf, w.size, w.n, CRLF)
             b2 == bufCopy(b1, w.size, w.s + w.ndigit, CRLF)
             b3 == bufCopy(b2, w.size, w.s, hexPad(cnt, w.ndigit))
         IN  [w |-> [w EXCEPT !.buf = b3, !.n = w.n + 2], panic |-> FALSE]
\* finalizeChunk: [w, panic]
finalizeChunk(w) ==
    IF w.s + w.ndigit + 2 = w.n THEN [w |-> [w EXCEPT !.n = w.s], panic |-> FALSE]
    ELSE IF w.n + 1 >= w.size THEN [w |-> w, panic |-> TRUE]
    ELSE LET cnt == w.n - w.s - w.ndigit - 2
             b1 == bufCopy(w.buf, w.size, w.n, CRLF)
             b2 == bufCopy(b1, w.size, w.s + w.ndigit, CRLF)
             b3 == bufCopy(b2, w.size, w.s, hexPad(cnt, w.ndigit))
         IN  [w |-> [w EXCEPT !.buf = b3, !.n = w.n + 2], panic |-> FALSE]

\* Flush after finalizeChunk has returned f.
flushFinalized(w, f, o, broken) ==
    IF f.panic THEN Panicked(w, o)
    ELSE IF f.w.n > 0
    THEN LET b == writeBuf(f.w, o, broken) IN
         IF b.panic THEN Panicked(f.w, o)
         ELSE IF b.w.err /= "nil" THEN Res(b.w, b.out, 0, b.w.err)
         ELSE Res([b.w EXCEPT !.s = 0, !.n = b.w.ndigit + 2], b.out, 0, "nil")
    ELSE Res([f.w EXCEPT !.s = 0, !.n = f.w.ndigit + 2], o, 0, "nil")

chunkedFlush(w, o, broken) ==
    IF w.err /= "nil" THEN Res(w, o, 0, w.err)
    ELSE flushFinalized(w, finalizeChunk(w), o, broken)

lastChunk == <<"0", "\r", "\n", "\r", "\n">>

\* The last chunk written without leaving the encoder in the invalid state.
writeLastChunkStaysValid(w1, o1, broken) ==
    LET w2 == [w1 EXCEPT !.buf = bufCopy(w1.buf, w1.size, w1.n, lastChunk),
                         !.n = w1.n + Len(lastChunk)]
        b2 == writeBuf(w2, o1, broken)
    IN  IF b2.panic THEN Panicked(w2, o1)
        ELSE Res(b2.w, b2.out, b2.w.written, b2.w.err)
\* finish from the copy of the last chunk on: w1 is the encoder with room
\* for it at w1.n.
writeLastChunk(w1, o1, broken) ==
    LET w2 == [w1 EXCEPT !.buf = bufCopy(w1.buf, w1.size, w1.n, lastChunk),
                         !.n = w1.n + Len(lastChunk)]
        b2 == writeBuf(w2, o1, broken)
    IN  IF b2.panic THEN Panicked(w2, o1)
        ELSE Res([b2.w EXCEPT !.err = IF b2.w.err = "nil" THEN "ErrInvalidState" ELSE b2.w.err],
                 b2.out, b2.w.written, b2.w.err)

\* finish when the last chunk does not fit: b1 is what writeBuf returned.
lastChunkAfterWrite(fw, b1, o, broken) ==
    IF b1.panic THEN Panicked(fw, o)
    ELSE IF b1.w.err /= "nil" THEN Res(b1.w, b1.out, b1.w.written, b1.w.err)
    ELSE writeLastChunk([b1.w EXCEPT !.n = 0], b1.out, broken)

\* finish after finalizeChunk has returned f.
finishFinalized(w, f, o, broken) ==
    IF f.panic THEN Panicked(w, o)
    ELSE IF f.w.n + Len(lastChunk) > f.w.size
    THEN lastChunkAfterWrite(f.w, writeBuf(f.w, o, broken), o, broken)
    ELSE writeLastChunk(f.w, o, broken)

chunkedFinish(w, o, broken) ==
    IF w.err /= "nil" THEN Res(w, o, w.written, w.err)
    ELSE finishFinalized(w, finalizeChunk(w), o, broken)

\* The loop of Write: p is what is left to write, nn what has been taken.
RECURSIVE chunkedWriteLoop(_, _, _, _, _)

\* The copy of the loop body: n bytes of p go to buf[w1.n:].
copyToChunk(w1, o1, broken, p, nn, n) ==
    IF w1.n > w1.size THEN Panicked(w1, o1)
    ELSE chunkedWriteLoop([w1 EXCEPT !.buf = bufCopy(w1.buf, w1.size, w1.n, p),
                                     !.n = w1.n + n],
                          o1, broken, Tail1(p, n + 1), nn + n)

\* The loop body when there is no room: f is what Flush returned.
copyAfterFlush(f, broken, p, nn) ==
    IF f.panic THEN Panicked(f.w, f.out)
    ELSE IF f.w.err /= "nil" THEN Res(f.w, f.out, nn, f.w.err)
    ELSE copyToChunk(f.w, f.out, broken, p, nn, Min(f.w.size - 2, Len(p)))

chunkedWriteLoop(w, o, broken, p, nn) ==
    IF p = <<>> THEN Res(w, o, nn, w.err)
    ELSE IF w.size - w.n - 2 <= 0
    THEN copyAfterFlush(chunkedFlush(w, o, broken), broken, p, nn)
    ELSE copyToChunk(w, o, broken, p, nn, Min(w.size - w.n - 2, Len(p)))

chunkedWrite(w, o, broken, p) ==
    IF w.err /= "nil" THEN Res(w, o, 0, w.err) ELSE chunkedWriteLoop(w, o, broken, p, 0)

\* ---- the responseBody interface
bodyWrite(w, o, broken, p) ==
    IF w.kind = "null" THEN nullWrite(w, o, broken, p)
    ELSE IF w.kind = "identity" THEN identityWrite(w, o, broken, p)
    ELSE chunkedWrite(w, o, broken, p)

bodyFlush(w, o, broken) ==
    IF w.kind = "null" THEN nullFlush(w, o, broken)
    ELSE IF w.kind = "identity" THEN identityFlush(w, o, broken)
    ELSE chunkedFlush(w, o, broken)

\* finish that leaves the encoder usable: err is not set to ErrInvalidState.
bodyFinishReusable(w, o, broken) ==
    LET r == IF w.kind = "null" THEN nullFinish(w, o, broken)
             ELSE IF w.kind = "identity" THEN identityFinish(w, o, broken)
             ELSE chunkedFinish(w, o, broken)
    IN  [r EXCEPT !.w.err = r.err]
bodyFinish(w, o, broken) ==
    IF w.kind = "null" THEN nullFinish(w, o, broken)
    ELSE IF w.kind = "identity" THEN identityFinish(w, o, broken)
    ELSE chunkedFinish(w, o, broken)


(***************************************************************************)
(* The transaction.  A transaction record holds the fields of struct       *)
(* transaction that the code reads back; req is NoReq for a nil request;   *)
(* Body is the reader bound to req.Body; responseBody is the index of the  *)
(* encoder in the list of encoders handed out, 0 for nil.                  *)
(***************************************************************************)
NoReq == [nil |-> TRUE]

newTransaction ==
    [req |-> NoReq, Body |-> "none", responseBody |-> 0,
     chunkedResponse |-> FALSE, closeAfterResponse |-> FALSE, hijacked |-> FALSE,
     requestAvail |-> 0, requestErr |-> "nil", requestConsumed |-> FALSE,
     respondCalled |-> FALSE, responseErr |-> "nil", write100Continue |-> FALSE,
     status |-> 0, header |-> EmptyHeader, headerSize |-> 0]

\* The persistence decision of prepare: closeAfterResponse from the
\* protocol version, the Connection header and the content length.
closeFromRequest(version, connection, contentLength) ==
    IF version >= ProtocolVersion(1, 1) THEN connection = sClose
    ELSE IF version = ProtocolVersion(1, 0) /\ contentLength >= 0 THEN connection /= sKeepAlive
    ELSE TRUE

\* The body reader prepare binds and the flags it sets with it.
bindBody(tr, req, chunked) ==
    IF req.Method = sGET \/ req.Method = sHEAD
    THEN [tr EXCEPT !.Body = "identityReader", !.requestConsumed = TRUE]
    ELSE IF chunked
    THEN [tr EXCEPT !.Body = "chunkedReader"]
    ELSE IF req.ContentLength >= 0
    THEN [tr EXCEPT !.Body = "chunkedReader", !.requestAvail = req.ContentLength,
                    !.requestConsumed = (req.ContentLength = 0)]
    ELSE [tr EXCEPT !.Body = "identityReader", !.closeAfterResponse = TRUE]

\* prepare once web.NewRequest has returned req for the request line rl and
\* the header block hd.
prepareRequest(rl, hd, req) ==
    LET expect == Get(hd.header, HeaderExpect)
        connection == ToLower(Get(hd.header, HeaderConnection))
        te == GetList(hd.header, HeaderTransferEncoding)
        chunked == Len(te) > 0 /\ te[1] = sChunked
        t1 == [newTransaction EXCEPT
                 !.req = req,
                 !.write100Continue = (expect /= <<>> /\ ToLower(expect) = s100Continue),
                 !.closeAfterResponse =
                     closeFromRequest(rl.version, connection, req.ContentLength)]
    IN  IF req.err /= "nil" THEN [err |-> req.err, t |-> newTransaction, rest |-> hd.rest]
        ELSE [err |-> "nil", t |-> bindBody(t1, req, chunked), rest |-> hd.rest]

\* prepare once the header block hd has been parsed.
prepareHeader(rl, hd) ==
    IF hd.err /= "nil" THEN [err |-> hd.err, t |-> newTransaction, rest |-> hd.rest]
    ELSE prepareRequest(rl, hd, NewRequest(rl.method, rl.url, rl.version, hd.header))

\* prepare once the request line rl has been read.
prepareLine(rl, inEnd) ==
    IF rl.err /= "nil" THEN [err |-> rl.err, t |-> newTransaction, rest |-> rl.rest]
    ELSE prepareHeader(rl, ParseHttpHeader(rl.rest, inEnd))

\* (*transaction).prepare on a fresh transaction: [err, t, rest]
prepare(inp, inEnd) == prepareLine(readRequestLine(inp, inEnd), inEnd)

\* Trailer lines after the zero-size chunk: up to the empty line.
RECURSIVE readTrailers(_, _)

\* One pass of the trailer loop: l is what ReadLine returned.
trailerLine(l, inEnd) ==
    IF l.err /= "nil" THEN [n |-> 0, err |-> l.err, rest |-> l.rest]
    ELSE IF l.isPrefix THEN [n |-> 0, err |-> "bad chunked format", rest |-> l.rest]
    ELSE IF l.line = <<>> THEN [n |-> 0, err |-> "EOF", rest |-> l.rest]
    ELSE readTrailers(l.rest, inEnd)

readTrailers(inp, inEnd) == trailerLine(ReadLine(inp, inEnd), inEnd)

\* Whether the two bytes after a chunk's data are refused as a separator.
badSeparator(p) == p[1] /= "\r" /\ p[2] /= "\n"

\* readChunkFraming from the chunk-size line on: l is what ReadLine
\* returned, sz the size parsed from it.
chunkSizeLine(l, sz, inEnd) ==
    IF l.err /= "nil" THEN [n |-> 0, err |-> l.err, rest |-> l.rest]
    ELSE IF l.isPrefix THEN [n |-> 0, err |-> "bad chunked format", rest |-> l.rest]
    ELSE IF ~sz.ok THEN [n |-> 0, err |-> "strconv syntax", rest |-> l.rest]
    ELSE IF sz.n = 0 THEN readTrailers(l.rest, inEnd)
    ELSE [n |-> sz.n, err |-> "nil", rest |-> l.rest]

\* readChunkFraming from the ReadLine of the chunk-size line on.
readChunkSize(inp, inEnd) ==
    LET l == ReadLine(inp, inEnd) IN chunkSizeLine(l, Btoui64(l.line), inEnd)

\* readChunkFraming: [n, err, rest]
readChunkFraming(inp, inEnd, first) ==
    IF first THEN readChunkSize(inp, inEnd)
    ELSE LET sep == ReadFull(inp, inEnd, 2) IN
         IF sep.err /= "nil" THEN [n |-> 0, err |-> sep.err, rest |-> sep.rest]
         ELSE IF badSeparator(sep.data)
         THEN [n |-> 0, err |-> "bad chunked format", rest |-> sep.rest]
         ELSE readChunkSize(sep.rest, inEnd)

\* A body read returns [t, rest, out, n, err, data]; err "block" means the
\* call never returns.
ReadRes(tr, rest, o, n, err, data) ==
    [t |-> tr, rest |-> rest, out |-> o, n |-> n, err |-> err, data |-> data]

\* checkRead that lets a read through after Respond or Hijack.
checkReadAnyState(tr, o, broken) ==
    IF tr.requestErr \notin {"nil", "ErrInvalidState"}
    THEN [err |-> tr.requestErr, t |-> tr, out |-> o]
    ELSE IF tr.write100Continue
    THEN [err |-> "nil", t |-> [tr EXCEPT !.write100Continue = FALSE],
          out |-> connWrite(o, broken, Continue100).out]
    ELSE [err |-> "nil", t |-> tr, out |-> o]
\* checkRead that leaves write100Continue set.
checkReadKeepsFlag(tr, o, broken) ==
    IF tr.requestErr /= "nil" THEN [err |-> tr.requestErr, t |-> tr, out |-> o]
    ELSE IF tr.write100Continue
    THEN [err |-> "nil", t |-> tr, out |-> connWrite(o, broken, Continue100).out]
    ELSE [err |-> "nil", t |-> tr, out |-> o]
\* checkRead: [err, t, out]
checkRead(tr, o, broken) ==
    IF tr.requestErr /= "nil" THEN [err |-> tr.requestErr, t |-> tr, out |-> o]
    ELSE IF tr.write100Continue
    THEN [err |-> "nil", t |-> [tr EXCEPT !.write100Continue = FALSE],
          out |-> connWrite(o, broken, Continue100).out]
    ELSE [err |-> "nil", t |-> tr, out |-> o]

\* identityReader.Read(p), len(p) = k, the connection delivering frag bytes.
identityRead(tr, inp, inEnd, o, broken, k, frag) ==
    LET c == checkRead(tr, o, broken)
        r == brRead(inp, inEnd, Min(k, c.t.requestAvail), frag)
        avail == c.t.requestAvail - Len(r.data)
    IN  IF c.err /= "nil" THEN ReadRes(tr, inp, o, 0, c.err, <<>>)
        ELSE IF c.t.requestAvail <= 0
        THEN ReadRes([c.t EXCEPT !.requestErr = "EOF"], inp, c.out, 0, "EOF", <<>>)
        ELSE IF r.err = "block" THEN ReadRes(c.t, inp, c.out, 0, "block", <<>>)
        ELSE ReadRes([c.t EXCEPT !.requestErr = r.err, !.requestAvail = avail,
                                 !.requestConsumed = (@ \/ avail = 0)],
                     r.rest, c.out, Len(r.data), r.err, r.data)

\* chunkedReader.Read(p), len(p) = k, the connection delivering frag bytes.
\* Read after the chunk's last byte was delivered: f2 is the framing read
\* that follows the data r.
readFollowingFraming(c, r, f2) ==
    ReadRes([c.t EXCEPT !.requestAvail = f2.n, !.requestErr = f2.err,
                        !.requestConsumed = (@ \/ f2.err = "EOF")],
            f2.rest, c.out, Len(r.data),
            IF f2.err = "block" THEN "block" ELSE r.err, r.data)

\* Read from the read of chunk data on: avail1 bytes of the chunk are left,
\* in1 is the stream, r what the buffered reader returned.
readChunkData(c, avail1, in1, r, inEnd) ==
    IF r.err = "block" THEN ReadRes(c.t, in1, c.out, 0, "block", <<>>)
    ELSE IF r.err = "nil" /\ avail1 - Len(r.data) = 0
    THEN readFollowingFraming(c, r, readChunkFraming(r.rest, inEnd, FALSE))
    ELSE ReadRes([c.t EXCEPT !.requestAvail = avail1 - Len(r.data), !.requestErr = r.err],
                 r.rest, c.out, Len(r.data), r.err, r.data)

\* Read when no chunk is open: f1 is the framing read that comes first.
readFirstFraming(c, f1, inEnd, k, frag) ==
    IF f1.err /= "nil"
    THEN ReadRes([c.t EXCEPT !.requestAvail = f1.n, !.requestErr = f1.err],
                 f1.rest, c.out, 0, f1.err, <<>>)
    ELSE readChunkData(c, f1.n, f1.rest, brRead(f1.rest, inEnd, Min(k, f1.n), frag), inEnd)

\* Read after checkRead has returned c.
readChecked(tr, c, inp, inEnd, o, k, frag) ==
    IF c.err /= "nil" THEN ReadRes(tr, inp, o, 0, c.err, <<>>)
    ELSE IF c.t.requestAvail = 0
    THEN readFirstFraming(c, readChunkFraming(inp, inEnd, TRUE), inEnd, k, frag)
    ELSE readChunkData(c, c.t.requestAvail, inp,
                       brRead(inp, inEnd, Min(k, c.t.requestAvail), frag), inEnd)

chunkedRead(tr, inp, inEnd, o, broken, k, frag) ==
    readChecked(tr, checkRead(tr, o, broken), inp, inEnd, o, k, frag)

\* req.Body.Read
bodyRead(tr, inp, inEnd, o, broken, k, frag) ==
    IF tr.Body = "chunkedReader" THEN chunkedRead(tr, inp, inEnd, o, broken, k, frag)
    ELSE identityRead(tr, inp, inEnd, o, broken, k, frag)


\* Respond strips a Transfer-Encoding the handler supplied.
stripTransferEncoding(header) ==
    IF Get(header, HeaderTransferEncoding) /= <<>>
    THEN Delete(header, HeaderTransferEncoding) ELSE header

\* Respond that does not look at requestConsumed.
closeAtRespondKeep(tr) == tr.closeAfterResponse
\* Respond forces close-after-response when the request body is unread.
closeAtRespond(tr) == tr.closeAfterResponse \/ ~tr.requestConsumed

\* A plan that does not force a close on a pre-1.1 response without a length.
respondPlanNoForce(tr, status, header) ==
    LET h1 == stripTransferEncoding(header)
        close1 == closeAtRespond(tr)
        notModified == status = StatusNotModified
        hasLength == ~notModified /\ Get(h1, HeaderContentLength) /= <<>>
        h2 == IF notModified THEN Delete(Delete(h1, HeaderContentType), HeaderContentLength)
              ELSE h1
        h3 == IF close1 THEN Set(h2, HeaderConnection, sClose) ELSE h2
        chunked == ~notModified /\ ~hasLength /\ ~close1 /\ tr.req.Method /= sHEAD
        h4 == IF chunked THEN Set(h3, HeaderTransferEncoding, sChunked) ELSE h3
    IN  [header |-> h4, closeAfterResponse |-> close1, chunkedResponse |-> chunked,
         contentLength |-> IF hasLength THEN Atoi(Get(h1, HeaderContentLength)).n ELSE 0 - 1]
\* The decisions of the first Respond: the header map as committed, the
\* flags, and the content length handed to the identity encoder.
respondPlan(tr, status, header) ==
    LET h1 == stripTransferEncoding(header)
        close1 == closeAtRespond(tr)
        notModified == status = StatusNotModified
        hasLength == ~notModified /\ Get(h1, HeaderContentLength) /= <<>>
        h2 == IF notModified THEN Delete(Delete(h1, HeaderContentType), HeaderContentLength)
              ELSE h1
        close2 == close1 \/ (~notModified /\ ~hasLength
                              /\ tr.req.ProtocolVersion < ProtocolVersion(1, 1))
        h3 == IF close2 THEN Set(h2, HeaderConnection, sClose) ELSE h2
        chunked == ~notModified /\ ~hasLength /\ ~close2 /\ tr.req.Method /= sHEAD
        h4 == IF chunked THEN Set(h3, HeaderTransferEncoding, sChunked) ELSE h3
    IN  [header |-> h4, closeAfterResponse |-> close2, chunkedResponse |-> chunked,
         contentLength |-> IF hasLength THEN Atoi(Get(h1, HeaderContentLength)).n ELSE 0 - 1]

\* The header map Respond commits for a handler's header map.
respondHeader(tr, status, header) ==
    IF tr.hijacked \/ tr.respondCalled THEN header ELSE respondPlan(tr, status, header).header

\* The status line and header block Respond builds.
statusLine(version, status) ==
    (IF version >= ProtocolVersion(1, 1) THEN <<"H","T","T","P","/","1",".","1">>
     ELSE <<"H","T","T","P","/","1",".","0">>)
    \o <<" ">> \o Itoa(status) \o <<" ">> \o StatusText(status) \o CRLF

\* What Respond returns when it refuses the call: the invalid-state sink.
refusedResponse(tr, o) ==
    [t |-> tr, body |-> invalidStateBody, out |-> o, prelude |-> <<>>, fresh |-> FALSE]

\* Respond from "t.respondCalled = true" on: the commit of status and header
\* and the choice of the encoder.
\* The encoder Respond makes for the plan, given the bytes b of the status
\* line and the header block.
newResponseBody(tr, plan, b, o, broken) ==
    IF tr.req.Method = sHEAD THEN newNullResponseBody(o, broken, b)
    ELSE IF plan.chunkedResponse THEN newChunkedResponseBody(o, broken, b, bufferSize)
    ELSE newIdentityResponseBody(o, broken, b, bufferSize, plan.contentLength)

\* What Respond leaves and returns: made is the encoder as constructed.
committed(tr, status, plan, b, made) ==
    [t |-> [tr EXCEPT !.respondCalled = TRUE, !.requestErr = "ErrInvalidState",
                      !.status = status, !.header = plan.header,
                      !.closeAfterResponse = plan.closeAfterResponse,
                      !.chunkedResponse = plan.chunkedResponse,
                      !.headerSize = Len(b)],
     body |-> made.w, out |-> made.out, prelude |-> b, fresh |-> TRUE]

\* Respond from the header block on, for the decisions in plan.
commitPlan(tr, status, plan, order, o, broken) ==
    LET b == statusLine(tr.req.ProtocolVersion, status) \o WriteHttpHeader(plan.header, order)
    IN  committed(tr, status, plan, b, newResponseBody(tr, plan, b, o, broken))

commitResponse(tr, status, header, order, o, broken) ==
    commitPlan(tr, status, respondPlan(tr, status, header), order, o, broken)

\* Respond without the respondCalled check.
RespondAgain(tr, status, header, order, o, broken) ==
    IF tr.hijacked THEN refusedResponse(tr, o)
    ELSE commitResponse(tr, status, header, order, o, broken)
\* (*transaction).Respond: [t, body, out, prelude, fresh].  order is the
\* order in which the committed header map is written.  fresh is FALSE for
\* a refused call.
Respond(tr, status, header, order, o, broken) ==
    IF tr.hijacked \/ tr.respondCalled THEN refusedResponse(tr, o)
    ELSE commitResponse(tr, status, header, order, o, broken)

\* Hijack without the respondCalled check.
HijackAnyTime(tr) ==
    [t |-> [tr EXCEPT !.hijacked = TRUE, !.requestErr = "ErrInvalidState",
                      !.responseErr = "ErrInvalidState", !.req = NoReq],
     err |-> "nil"]
\* (*transaction).Hijack: [t, err]; with err "nil" the caller gets the
\* connection and the buffered reader.
Hijack(tr) ==
    IF tr.respondCalled THEN [t |-> tr, err |-> "ErrInvalidState"]
    ELSE [t |-> [tr EXCEPT !.hijacked = TRUE, !.requestErr = "ErrInvalidState",
                           !.responseErr = "ErrInvalidState", !.req = NoReq],
          err |-> "nil"]

\* The header of the response finish synthesizes when Respond was not called.
defaultHeader == Add(EmptyHeader, HeaderContentType, sTextHtml)

\* finish that does not force close-after-response on an error.
finishedStaysOpen(r, f) ==
    [t |-> [r.t EXCEPT !.responseErr = IF f.err /= "nil" THEN f.err ELSE "ErrInvalidState",
                       !.responseBody = 0],
     body |-> f.w, out |-> f.out, prelude |-> r.prelude, fresh |-> r.fresh,
     written |-> f.n, panic |-> f.panic]
\* finish from "var written int" on: r is the response as committed.
\* What finish leaves: f is what the encoder's finish returned.
finished(r, f) ==
    [t |-> [r.t EXCEPT !.responseErr = IF f.err /= "nil" THEN f.err ELSE "ErrInvalidState",
                       !.closeAfterResponse = (@ \/ f.err /= "nil"),
                       !.responseBody = 0],
     body |-> f.w, out |-> f.out, prelude |-> r.prelude, fresh |-> r.fresh,
     written |-> f.n, panic |-> f.panic]

finishResponse(r, broken) ==
    finished(r, IF r.t.responseErr = "nil" THEN bodyFinish(r.body, r.out, broken)
                ELSE Res(r.body, r.out, 0, r.t.responseErr))

\* finish without the default response.
finishAsIs(tr, w, order, o, broken) ==
    finishResponse([t |-> tr, body |-> w, out |-> o, prelude |-> <<>>, fresh |-> FALSE], broken)
\* (*transaction).finish: [t, body, out, prelude, fresh, written, panic].
\* w is the transaction's encoder when Respond has been called.
finish(tr, w, order, o, broken) ==
    finishResponse(IF ~tr.respondCalled
                   THEN Respond(tr, StatusOK, defaultHeader, order, o, broken)
                   ELSE [t |-> tr, body |-> w, out |-> o, prelude |-> <<>>, fresh |-> FALSE],
                   broken)

(***************************************************************************)
(* The websocket package: the checks of Upgrade, the handshake, and the    *)
(* text frames of ReadMessage and WriteMessage.  The byte 0 is the string  *)
(* Zero and the byte 0xff is the string ByteFF.                            *)
(***************************************************************************)
ByteFF == "<255>"

\* A uint32 as two 16-bit halves, so that no intermediate value leaves the
\* range of the integers the checker computes with.
Half == 65536
u32zero == [hi |-> 0, lo |-> 0]
\* n*10 + uint32(b) - '0', modulo 2^32
mulAdd10(n, digit) ==
    LET lo == (n.lo * 10) + digit IN
    [hi |-> ((n.hi * 10) + (lo \div Half)) % Half, lo |-> lo % Half]
\* n % d and n / d for 0 < d < 2^15
mod32(n, d) == (((n.hi % d) * (Half % d)) + (n.lo % d)) % d
div32(n, d) == [hi |-> n.hi \div d, lo |-> (((n.hi % d) * Half) + n.lo) \div d]
\* binary.BigEndian.PutUint32: the four bytes, as numbers
PutUint32(n) == <<n.hi \div 256, n.hi % 256, n.lo \div 256, n.lo % 256>>

\* The loop of webSocketKey over the header value: n is the number formed
\* from the decimal digits, d the number of spaces.
RECURSIVE keyScan(_, _, _)
keyScan(s, n, d) ==
    IF s = <<>> THEN [n |-> n, d |-> d]
    ELSE IF s[1] = " " THEN keyScan(Tail(s), n, d + 1)
    ELSE IF IsDigit(s[1]) THEN keyScan(Tail(s), mulAdd10(n, Pos(DigitChars, s[1]) - 1), d)
    ELSE keyScan(Tail(s), n, d)

\* webSocketKey without the division by the number of spaces.
webSocketKeyUndivided(req, name) ==
    LET s == Get(req.Header, name) IN
    IF s = <<>> THEN [key |-> <<>>, err |-> "missing key"]
    ELSE LET c == keyScan(s, u32zero, 0) IN
         IF c.d = 0 \/ mod32(c.n, c.d) /= 0 THEN [key |-> <<>>, err |-> "bad key"]
         ELSE [key |-> PutUint32(c.n), err |-> "nil"]
\* webSocketKey: [key, err]
webSocketKey(req, name) ==
    LET s == Get(req.Header, name) IN
    IF s = <<>> THEN [key |-> <<>>, err |-> "missing key"]
    ELSE LET c == keyScan(s, u32zero, 0) IN
         IF c.d = 0 \/ mod32(c.n, c.d) /= 0 THEN [key |-> <<>>, err |-> "bad key"]
         ELSE [key |-> PutUint32(div32(c.n, c.d)), err |-> "nil"]

\* Upgrade without the check of the Origin header.
upgradeCheckNoOrigin(req) ==
    IF req.Method /= sGET
    THEN [status |-> StatusMethodNotAllowed, err |-> "bad request method"]
    ELSE IF ToLower(Get(req.Header, HeaderConnection)) /= sUpgrade
    THEN [status |-> StatusBadRequest, err |-> "connection header missing or wrong value"]
    ELSE IF ToLower(Get(req.Header, HeaderUpgrade)) /= sWebsocket
    THEN [status |-> StatusBadRequest, err |-> "upgrade header missing or wrong value"]
    ELSE IF webSocketKey(req, HeaderSecWebSocketKey1).err /= "nil"
    THEN [status |-> StatusBadRequest, err |-> webSocketKey(req, HeaderSecWebSocketKey1).err]
    ELSE IF webSocketKey(req, HeaderSecWebSocketKey2).err /= "nil"
    THEN [status |-> StatusBadRequest, err |-> webSocketKey(req, HeaderSecWebSocketKey2).err]
    ELSE [status |-> 0, err |-> "nil"]
\* Upgrade up to the call of Hijack: the status Upgrade responds with and the
\* error it returns, or err "nil" when the request passes every check.
upgradeCheck(req) ==
    IF req.Method /= sGET
    THEN [status |-> StatusMethodNotAllowed, err |-> "bad request method"]
    ELSE IF Get(req.Header, HeaderOrigin) = <<>>
    THEN [status |-> StatusBadRequest, err |-> "origin missing"]
    ELSE IF ToLower(Get(req.Header, HeaderConnection)) /= sUpgrade
    THEN [status |-> StatusBadRequest, err |-> "connection header missing or wrong value"]
    ELSE IF ToLower(Get(req.Header, HeaderUpgrade)) /= sWebsocket
    THEN [status |-> StatusBadRequest, err |-> "upgrade header missing or wrong value"]
    ELSE IF webSocketKey(req, HeaderSecWebSocketKey1).err /= "nil"
    THEN [status |-> StatusBadRequest, err |-> webSocketKey(req, HeaderSecWebSocketKey1).err]
    ELSE IF webSocketKey(req, HeaderSecWebSocketKey2).err /= "nil"
    THEN [status |-> StatusBadRequest, err |-> webSocketKey(req, HeaderSecWebSocketKey2).err]
    ELSE [status |-> 0, err |-> "nil"]

\* hash.Sum() of key1, key2 and key3: sixteen bytes.  Their values are not
\* computed: each is the byte named here.
md5Sum(key1, key2, key3) == [i \in 1..16 |-> "<md5>"]

\* The header map of the handshake response, for the header argument nil.
handshakeHeader(req) ==
    LET h1 == Set(EmptyHeader, HeaderUpgrade, <<"W","e","b","S","o","c","k","e","t">>)
        h2 == Set(h1, HeaderConnection, <<"U","p","g","r","a","d","e">>)
        h3 == Set(h2, HeaderSecWebsocketLocation,
                  <<"w","s",":","/","/">> \o Get(req.Header, HeaderHost) \o <<"/">>)
        h4 == Set(h3, HeaderSecWebsocketOrigin, Get(req.Header, HeaderOrigin))
        protocol == Get(req.Header, HeaderSecWebSocketProtocol)
    IN  IF protocol /= <<>> THEN Set(h4, HeaderSecWebSocketProtocol, protocol) ELSE h4

handshakeLine ==
    <<"H","T","T","P","/","1",".","1"," ","1","0","1"," ","W","e","b","S","o","c","k","e","t",
      " ","P","r","o","t","o","c","o","l"," ","H","a","n","d","s","h","a","k","e">> \o CRLF

\* Upgrade after Hijack has returned the connection: the eight bytes of key3
\* are read, and the status line, the header block and the digest are
\* written and flushed.  [err, rest, out, open, prelude]: open is FALSE when
\* the deferred netConn.Close() has run.
handshake(req, stream, end, o, broken, order) ==
    IF Len(stream) < 8
    THEN IF end = "block"
         THEN [err |-> "block", rest |-> <<>>, out |-> o, open |-> TRUE, prelude |-> <<>>]
         ELSE [err |-> IF stream = <<>> THEN "EOF" ELSE "ErrUnexpectedEOF",
               rest |-> <<>>, out |-> o, open |-> FALSE, prelude |-> <<>>]
    ELSE LET key1 == webSocketKey(req, HeaderSecWebSocketKey1).key
             key2 == webSocketKey(req, HeaderSecWebSocketKey2).key
             response == md5Sum(key1, key2, SubSeq(stream, 1, 8))
             b == handshakeLine \o WriteHttpHeader(handshakeHeader(req), order) \o response
             w == connWrite(o, broken, b)
         IN  [err |-> w.err, rest |-> Tail1(stream, 9), out |-> w.out,
              open |-> w.err = "nil", prelude |-> b]

\* bufio.Reader.ReadSlice(delim) on a reader of the given size whose unread
\* bytes are the stream: [line, err, rest].
ReadSliceSize(stream, end, size, delim) ==
    LET at == IndexByte(stream, delim) IN
    IF at > 0 /\ at <= size
    THEN [line |-> SubSeq(stream, 1, at), err |-> "nil", rest |-> Tail1(stream, at + 1)]
    ELSE IF Len(stream) >= size
    THEN [line |-> SubSeq(stream, 1, size), err |-> "ErrBufferFull",
          rest |-> Tail1(stream, size + 1)]
    ELSE IF end = "block" THEN [line |-> <<>>, err |-> "block", rest |-> stream]
    ELSE [line |-> stream, err |-> "EOF", rest |-> <<>>]

\* ReadMessage from the call of ReadSlice on: [conn, chunk, hasMore, err, rest]
readFrame(conn, stream, end) ==
    LET r == ReadSliceSize(stream, end, conn.size, ByteFF) IN
    IF r.err = "ErrBufferFull"
    THEN [conn |-> [conn EXCEPT !.hasMore = TRUE], chunk |-> r.line, hasMore |-> TRUE,
          err |-> "nil", rest |-> r.rest]
    ELSE IF r.err = "nil"
    THEN [conn |-> [conn EXCEPT !.hasMore = FALSE],
          chunk |-> SubSeq(r.line, 1, Len(r.line) - 1), hasMore |-> FALSE,
          err |-> "nil", rest |-> r.rest]
    ELSE [conn |-> conn, chunk |-> <<>>, hasMore |-> FALSE, err |-> r.err, rest |-> r.rest]

\* (*Conn).ReadMessage
ReadMessage(conn, stream, end) ==
    IF conn.hasMore THEN readFrame(conn, stream, end)
    ELSE IF stream = <<>>
    THEN [conn |-> conn, chunk |-> <<>>, hasMore |-> FALSE,
          err |-> IF end = "block" THEN "block" ELSE "EOF", rest |-> stream]
    ELSE IF stream[1] /= Zero
    THEN [conn |-> conn, chunk |-> <<>>, hasMore |-> FALSE, err |-> "unexpected framing",
          rest |-> Tail(stream)]
    ELSE readFrame(conn, Tail(stream), end)

\* (*Conn).WriteMessage: [err, out]
WriteMessage(o, broken, p) ==
    LET w == connWrite(o, broken, <<Zero>> \o p \o <<ByteFF>>) IN [err |-> w.err, out |-> w.out]

(***************************************************************************)
(* The connection worker: serveConnection and the handler it calls.        *)
(***************************************************************************)
VARIABLES
    NoRecoverHandlers, \* Server.NoRecoverHandlers
    inp,               \* bytes of the stream the server has not consumed
    inEnd,             \* what follows them: "eof" or "block"
    out,               \* bytes written to the connection
    closed,            \* number of conn.Close() calls made by the server
    wbroken,           \* the peer is gone: conn.Write fails
    pc,                \* where the worker is: "loop" (top of the for loop),
                       \* "handler" (inside ServeWeb), "closed" (returned after
                       \* conn.Close()), "hijacked" (returned, stream handed
                       \* over), "crashed" (a panic left the goroutine),
                       \* "blocked" (inside a read that never returns)
    t,                 \* the current transaction
    sinks,             \* the encoders handed out by Respond on this connection
    sinkTx,            \* for each, the number of the transaction it belongs to
    txn,               \* number of transactions prepared so far
    calls,             \* handler calls made so far on this connection
    ret,               \* what the last call returned to the handler
    outTx,             \* for each byte of out, the transaction that wrote it
    got,               \* body bytes the reads of this transaction delivered
    afterHead,         \* the stream as it stood after this request's header block
    prelude,           \* status line and header block this transaction committed
    given,             \* the header map the handler passed to that Respond
    sent,              \* encoder on its own: the buffers passed to Write, in order
    errs,              \* the listener: results its next Accept calls return
    accepted,          \* the error of every Accept call that has returned
    served,            \* the Accept calls whose connection went to a worker
    serveErr,          \* what Serve returned, "none" while it runs
    ws,                \* the websocket.Conn Upgrade returned to the handler
    other,             \* two workers: the local variables of each goroutine
    conns              \* two workers: the connections and transactions they reach

\* The acceptor's state and the worker's.
acceptorVars == <<errs, accepted, served, serveErr>>
workerVars == <<NoRecoverHandlers, inp, inEnd, out, closed, wbroken, pc, t, sinks, sinkTx,
                txn, calls, ret, outTx, got, afterHead, prelude, given>>
wsVars == <<ws>>
pairVars == <<other, conns>>
vars == <<workerVars, sent, acceptorVars, wsVars, pairVars>>

\* No websocket connection, and a server with one worker.
NoConn == [open |-> FALSE, hasMore |-> FALSE, size |-> 0]
OneWorker == [streams |-> <<>>, ends |-> <<>>, conn |-> <<>>, tx |-> <<>>]

\* ---- what the client sends
ReqLine(method, minor) ==
    method \o <<" ", "/", " ">> \o sHTTP \o <<"1", ".", minor>> \o CRLF
Hdr(name, value) == name \o <<":", " ">> \o value \o CRLF
BodyAB == <<"a", "b">>
ChunkedA == <<"1">> \o CRLF \o <<"a">> \o CRLF \o <<"0">> \o CRLF \o CRLF
ChunkedEmpty == <<"0">> \o CRLF \o CRLF

Get11 == ReqLine(sGET, "1") \o CRLF
Get10 == ReqLine(sGET, "0") \o CRLF
Get10KeepAlive == ReqLine(sGET, "0") \o Hdr(HeaderConnection, sKeepAlive) \o CRLF
Get11Close == ReqLine(sGET, "1") \o Hdr(HeaderConnection, sClose) \o CRLF
Head11 == ReqLine(sHEAD, "1") \o CRLF
Head10 == ReqLine(sHEAD, "0") \o CRLF
Post11Len2 == ReqLine(sPOST, "1") \o Hdr(HeaderContentLength, <<"2">>) \o CRLF \o BodyAB
Post11Len2Expect ==
    ReqLine(sPOST, "1") \o Hdr(HeaderContentLength, <<"2">>)
    \o Hdr(HeaderExpect, s100Continue) \o CRLF \o BodyAB
Post11Len2ExpectMixed ==
    ReqLine(sPOST, "1") \o Hdr(HeaderContentLength, <<"2">>)
    \o Hdr(HeaderExpect, <<"1","0","0","-","C","o","n","t","i","n","u","E">>) \o CRLF \o BodyAB
Get11TeClose ==
    ReqLine(sGET, "1") \o Hdr(HeaderConnection, <<"T","E",","," ">> \o sClose) \o CRLF
Post11Len0 == ReqLine(sPOST, "1") \o Hdr(HeaderContentLength, <<"0">>) \o CRLF
Post11Chunked ==
    ReqLine(sPOST, "1") \o Hdr(HeaderTransferEncoding, sChunked) \o CRLF \o ChunkedA
Post11ChunkedEmpty ==
    ReqLine(sPOST, "1") \o Hdr(HeaderTransferEncoding, sChunked) \o CRLF \o ChunkedEmpty
Post10NoLen == ReqLine(sPOST, "0") \o CRLF \o BodyAB
Get11Len2 == ReqLine(sGET, "1") \o Hdr(HeaderContentLength, <<"2">>) \o CRLF \o BodyAB
BadLine == <<"G", "E", "T", "\r", "\n">>
NoColon == ReqLine(sGET, "1") \o HeaderHost \o CRLF \o CRLF

\* First requests of a connection, and what may follow one.
FirstRequests ==
    {Get11, Get10, Get10KeepAlive, Get11Close, Head11, Post11Len2, Post11Len2Expect,
     Post11Len0, Post11Chunked, Post11ChunkedEmpty, Post10NoLen, Get11Len2, BadLine, NoColon}
Followers == {<<>>, Get11, Post11Len2}
Streams == {a \o b : a \in FirstRequests, b \in Followers} \cup {Get11 \o Head11}

\* The connections explored: every stream ending in a close by the client, every
\* single request on a connection the client leaves open, and two servers
\* that do not recover from panics.
Configs ==
    {[stream |-> s, inEnd |-> "eof", noRecover |-> FALSE] : s \in Streams}
    \cup {[stream |-> s, inEnd |-> "block", noRecover |-> FALSE] : s \in FirstRequests}
    \cup {[stream |-> s, inEnd |-> "eof", noRecover |-> TRUE] : s \in {Get11, Post11Len2}}
    \cup {[stream |-> s, inEnd |-> "eof", noRecover |-> FALSE] :
             s \in {Post11Len2ExpectMixed, Get11TeClose, Head10}}

\* ---- what the handler passes
ReadLens == 1..MaxReadLen
Statuses == {StatusOK, StatusNotModified}
WriteData == {<<"H", "i">>}
HandlerHeaders ==
    {EmptyHeader,
     Add(EmptyHeader, HeaderContentLength, <<"2">>),
     Add(EmptyHeader, HeaderTransferEncoding, sGzip),
     Add(Add(Add(EmptyHeader, HeaderTransferEncoding, <<>>), HeaderTransferEncoding, sGzip),
         HeaderContentLength, <<"2">>),
     Add(EmptyHeader, HeaderConnection, sClose),
     Add(Add(EmptyHeader, HeaderTransferEncoding, <<>>), HeaderTransferEncoding, sGzip)}

NoRet == [op |-> "none", n |-> 0, err |-> "nil", data |-> <<>>]

Init ==
    /\ \E c \in Configs :
         /\ NoRecoverHandlers = c.noRecover
         /\ inp = c.stream
         /\ inEnd = c.inEnd
    /\ out = <<>>
    /\ closed = 0
    /\ wbroken = FALSE
    /\ pc = "loop"
    /\ t = newTransaction
    /\ sinks = <<>>
    /\ sinkTx = <<>>
    /\ txn = 0
    /\ calls = 0
    /\ ret = NoRet
    /\ outTx = <<>>
    /\ got = <<>>
    /\ afterHead = <<>>
    /\ prelude = <<>>
    /\ given = EmptyHeader
    /\ sent = <<>>
    /\ errs = <<>>
    /\ accepted = <<>>
    /\ served = <<>>
    /\ serveErr = "none"
    /\ ws = NoConn
    /\ other = NoConn
    /\ conns = OneWorker

\* The tags of the bytes a step adds to out.
Tagged(o, tag) == outTx \o [i \in 1..(Len(o) - Len(out)) |-> tag]

\* A deferred recover that leaves the connection open.
recoverPanicLeavesOpen(noRecover, tr, nclosed) ==
    IF noRecover \/ tr.req = NoReq THEN [pc |-> "crashed", closed |-> nclosed]
    ELSE [pc |-> "closed", closed |-> nclosed]
\* The deferred recover of serveConnection after a panic: conn.Close(), then
\* the log line, which reads t.req.URL.  [pc, closed]
recoverPanic(noRecover, tr, nclosed) ==
    IF noRecover THEN [pc |-> "crashed", closed |-> nclosed]
    ELSE IF tr.req = NoReq THEN [pc |-> "crashed", closed |-> nclosed + 1]
    ELSE [pc |-> "closed", closed |-> nclosed + 1]

\* Top of the loop: a new transaction and prepare; on an error the loop
\* breaks and the connection is closed.
Prepare ==
    /\ pc = "loop"
    /\ \E r \in {prepare(inp, inEnd)} :
         LET rec == recoverPanic(NoRecoverHandlers, r.t, closed)
         IN
           /\ inp' = r.rest
           /\ t' = r.t
           /\ txn' = txn + 1
           /\ afterHead' = IF r.err = "nil" THEN r.rest ELSE <<>>
           /\ pc' = IF r.err = "nil" THEN "handler"
                    ELSE IF r.err = "block" THEN "blocked"
                    ELSE IF r.err = "panic" THEN rec.pc
                    ELSE "closed"
           /\ closed' = IF r.err \in {"nil", "block"} THEN closed
                        ELSE IF r.err = "panic" THEN rec.closed
                        ELSE closed + 1
    /\ got' = <<>>
    /\ prelude' = <<>>
    /\ given' = EmptyHeader
    /\ ret' = NoRet
    /\ UNCHANGED <<acceptorVars, wsVars, pairVars, sent, NoRecoverHandlers, inEnd, out, wbroken, sinks, sinkTx, calls, outTx>>

\* The handler reads the request body: req.Body.Read(p) with len(p) = k.
BodyRead(k, frag) ==
    /\ pc = "handler"
    /\ calls < MaxCalls
    /\ \E r \in {bodyRead(t, inp, inEnd, out, wbroken, k, frag)} :
       /\ t' = r.t
       /\ inp' = r.rest
       /\ out' = r.out
       /\ outTx' = Tagged(r.out, txn)
       /\ pc' = IF r.err = "block" THEN "blocked" ELSE "handler"
       /\ ret' = [op |-> "Read", n |-> r.n, err |-> r.err, data |-> r.data]
       /\ got' = IF r.err = "block" THEN got ELSE got \o r.data
    /\ calls' = calls + 1
    /\ UNCHANGED <<acceptorVars, wsVars, pairVars, sent, NoRecoverHandlers, inEnd, closed, wbroken, sinks, sinkTx, txn,
                   afterHead, prelude, given>>

\* The handler calls req.Responder.Respond(status, header).
HandlerRespond(status, header, order) ==
    /\ pc = "handler"
    /\ calls < MaxCalls
    /\ \E r \in {Respond(t, status, header, order, out, wbroken)} :
       /\ t' = [r.t EXCEPT !.responseBody = IF r.fresh THEN Len(sinks) + 1 ELSE @]
       /\ sinks' = Append(sinks, r.body)
       /\ sinkTx' = Append(sinkTx, txn)
       /\ out' = r.out
       /\ outTx' = Tagged(r.out, txn)
       /\ prelude' = IF r.fresh THEN r.prelude ELSE prelude
       /\ given' = IF r.fresh THEN header ELSE given
       /\ ret' = [op |-> "Respond", n |-> Len(sinks) + 1, err |-> "nil", data |-> <<>>]
    /\ calls' = calls + 1
    /\ UNCHANGED <<acceptorVars, wsVars, pairVars, sent, NoRecoverHandlers, inp, inEnd, closed, wbroken, pc, txn, got, afterHead>>

\* The handler writes p to a sink it holds, of this or an earlier transaction.
SinkWrite(i, p) ==
    /\ pc = "handler"
    /\ calls < MaxCalls
    /\ i \in DOMAIN sinks
    /\ \E r \in {bodyWrite(sinks[i], out, wbroken, p)} :
         LET rec == recoverPanic(NoRecoverHandlers, t, closed)
         IN
           /\ sinks' = [sinks EXCEPT ![i] = r.w]
           /\ out' = r.out
           /\ outTx' = Tagged(r.out, sinkTx[i])
           /\ ret' = [op |-> "Write", n |-> r.n, err |-> r.err, data |-> p]
           /\ pc' = IF r.panic THEN rec.pc ELSE pc
           /\ closed' = IF r.panic THEN rec.closed ELSE closed
    /\ calls' = calls + 1
    /\ UNCHANGED <<acceptorVars, wsVars, pairVars, sent, NoRecoverHandlers, inp, inEnd, wbroken, t, sinkTx, txn, got,
                   afterHead, prelude, given>>

\* The handler flushes a sink it holds.
SinkFlush(i) ==
    /\ pc = "handler"
    /\ calls < MaxCalls
    /\ i \in DOMAIN sinks
    /\ \E r \in {bodyFlush(sinks[i], out, wbroken)} :
         LET rec == recoverPanic(NoRecoverHandlers, t, closed)
         IN
           /\ sinks' = [sinks EXCEPT ![i] = r.w]
           /\ out' = r.out
           /\ outTx' = Tagged(r.out, sinkTx[i])
           /\ ret' = [op |-> "Flush", n |-> 0, err |-> r.err, data |-> <<>>]
           /\ pc' = IF r.panic THEN rec.pc ELSE pc
           /\ closed' = IF r.panic THEN rec.closed ELSE closed
    /\ calls' = calls + 1
    /\ UNCHANGED <<acceptorVars, wsVars, pairVars, sent, NoRecoverHandlers, inp, inEnd, wbroken, t, sinkTx, txn, got,
                   afterHead, prelude, given>>

\* The handler calls req.Responder.Hijack().
HandlerHijack ==
    /\ pc = "handler"
    /\ calls < MaxCalls
    /\ LET r == Hijack(t) IN
       /\ t' = r.t
       /\ ret' = [op |-> "Hijack", n |-> 0, err |-> r.err, data |-> <<>>]
    /\ calls' = calls + 1
    /\ UNCHANGED <<acceptorVars, wsVars, pairVars, sent, NoRecoverHandlers, inp, inEnd, out, closed, wbroken, pc, sinks, sinkTx,
                   txn, outTx, got, afterHead, prelude, given>>

\* The handler panics.
HandlerPanic ==
    /\ pc = "handler"
    /\ LET rec == recoverPanic(NoRecoverHandlers, t, closed) IN
       /\ pc' = rec.pc
       /\ closed' = rec.closed
    /\ ret' = [op |-> "panic", n |-> 0, err |-> "panic", data |-> <<>>]
    /\ UNCHANGED <<acceptorVars, wsVars, pairVars, sent, NoRecoverHandlers, inp, inEnd, out, wbroken, t, sinks, sinkTx, txn,
                   calls, outTx, got, afterHead, prelude, given>>

\* ServeWeb returns: the rest of the loop body of serveConnection.
HandlerReturn(order) ==
    /\ pc = "handler"
    /\ IF t.hijacked
       THEN /\ pc' = "hijacked"
            /\ UNCHANGED <<out, closed, t, sinks, sinkTx, outTx, prelude, given>>
       ELSE \E r \in {finish(t, IF t.respondCalled THEN sinks[t.responseBody] ELSE blankBody,
                               order, out, wbroken)} :
            LET at == IF r.fresh THEN Len(sinks) + 1 ELSE t.responseBody
                rec == recoverPanic(NoRecoverHandlers, r.t, closed)
            IN  /\ t' = r.t
                /\ sinks' = IF r.fresh THEN Append(sinks, r.body)
                            ELSE IF at \in DOMAIN sinks THEN [sinks EXCEPT ![at] = r.body]
                            ELSE sinks
                /\ sinkTx' = IF r.fresh THEN Append(sinkTx, txn) ELSE sinkTx
                /\ out' = r.out
                /\ outTx' = Tagged(r.out, txn)
                /\ prelude' = IF r.fresh THEN r.prelude ELSE prelude
                /\ given' = IF r.fresh THEN defaultHeader ELSE given
                /\ pc' = IF r.panic THEN rec.pc
                         ELSE IF r.t.closeAfterResponse THEN "closed" ELSE "loop"
                /\ closed' = IF r.panic THEN rec.closed
                             ELSE IF r.t.closeAfterResponse THEN closed + 1 ELSE closed
    /\ ret' = [op |-> "return", n |-> 0, err |-> "nil", data |-> <<>>]
    /\ UNCHANGED <<acceptorVars, wsVars, pairVars, sent, NoRecoverHandlers, inp, inEnd, wbroken, txn, calls, got, afterHead>>

\* The peer goes away: from now on writes to the connection fail.
BreakConn ==
    /\ pc = "handler"
    /\ ~wbroken
    /\ wbroken' = TRUE
    /\ UNCHANGED <<acceptorVars, wsVars, pairVars, sent, NoRecoverHandlers, inp, inEnd, out, closed, pc, t, sinks, sinkTx, txn,
                   calls, ret, outTx, got, afterHead, prelude, given>>

\* The orders in which the header map of the default response can be written.
finishOrders == KeyOrders(DOMAIN respondHeader(t, StatusOK, defaultHeader))

Next ==
    \/ Prepare
    \/ \E k \in ReadLens : \E frag \in 1..k : BodyRead(k, frag)
    \/ /\ pc = "handler"
       /\ \E status \in Statuses : \E header \in HandlerHeaders :
            \E order \in KeyOrders(DOMAIN respondHeader(t, status, header)) :
              HandlerRespond(status, header, order)
    \/ \E i \in DOMAIN sinks : \E p \in WriteData : SinkWrite(i, p)
    \/ \E i \in DOMAIN sinks : SinkFlush(i)
    \/ HandlerHijack
    \/ HandlerPanic
    \/ /\ pc = "handler"
       /\ \E order \in finishOrders : HandlerReturn(order)
    \/ BreakConn

Spec == Init /\ [][Next]_vars

(***************************************************************************)
(* The chunked encoder on its own, driven as TestChunkedResponse drives     *)
(* it: constructed over an empty connection with a header of nn bytes and  *)
(* a buffer of chunkTestBufferSize bytes, then any Write and Flush calls,   *)
(* then finish.  The encoder is sinks[1], the header is prelude, and sent   *)
(* collects the buffers passed to Write.  Here pc is "encoder" while calls  *)
(* are made, "finished" once finish has returned, and "crashed" after a     *)
(* run-time panic.                                                          *)
(***************************************************************************)
chunkTestBufferSize == 32

\* Header sizes and Write sizes of the test table, and the sizes one more
\* than what a chunk can hold.
PreludeLens == {0, 10, 31, 32}
WriteLens == {1, 5, 26, 27}

\* dots[:n]
dots(n) == [i \in 1..n |-> "."]
\* The n bytes of body data that follow the first from bytes: the body is a
\* repeating run of distinct letters, so that an exchange of bytes shows.
TestLetters == <<"a", "b", "c", "d", "e", "f", "g">>
testData(from, n) == [i \in 1..n |-> TestLetters[((from + i - 1) % Len(TestLetters)) + 1]]

\* The encoders under test, and the Content-Length values given to the
\* identity encoder: none, and one that the writes can miss or exceed.
EncoderKinds == {"null", "identity", "chunked"}
IdentityLengths == {0 - 1, 5}

\* The encoder of the given kind on an empty stream.
encoderUnderTest(kind, header, contentLength) ==
    IF kind = "null" THEN newNullResponseBody(<<>>, FALSE, header)
    ELSE IF kind = "identity"
    THEN newIdentityResponseBody(<<>>, FALSE, header, chunkTestBufferSize, contentLength)
    ELSE newChunkedResponseBody(<<>>, FALSE, header, chunkTestBufferSize)

EncInit ==
    /\ \E nn \in PreludeLens : \E kind \in EncoderKinds :
         \E cl \in IF kind = "identity" THEN IdentityLengths ELSE {0 - 1} :
         \E r \in {encoderUnderTest(kind, dots(nn), cl)} :
           /\ sinks = <<r.w>>
           /\ out = r.out
           /\ prelude = dots(nn)
    /\ pc = "encoder"
    /\ sent = <<>>
    /\ calls = 0
    /\ ret = NoRet
    /\ NoRecoverHandlers = FALSE
    /\ inp = <<>>
    /\ inEnd = "eof"
    /\ closed = 0
    /\ wbroken = FALSE
    /\ t = newTransaction
    /\ sinkTx = <<0>>
    /\ txn = 0
    /\ outTx = <<>>
    /\ got = <<>>
    /\ afterHead = <<>>
    /\ given = EmptyHeader
    /\ errs = <<>>
    /\ accepted = <<>>
    /\ served = <<>>
    /\ serveErr = "none"
    /\ ws = NoConn
    /\ other = NoConn
    /\ conns = OneWorker

encoderOnly == <<acceptorVars, wsVars, pairVars, NoRecoverHandlers, inp, inEnd, closed, wbroken, t, sinkTx,
                 txn, outTx, got, afterHead, prelude, given>>

\* w.Write([]byte(data[:n]))
EncWrite(n) ==
    /\ pc \in {"encoder", "finished"}
    /\ calls < MaxEncCalls
    /\ \E p \in {testData(Len(sent), n)} :
         \E r \in {bodyWrite(sinks[1], out, wbroken, p)} :
           /\ sinks' = <<r.w>>
           /\ out' = r.out
           /\ sent' = sent \o p
           /\ ret' = [op |-> "Write", n |-> r.n, err |-> r.err, data |-> p]
           /\ pc' = IF r.panic THEN "crashed" ELSE pc
    /\ calls' = calls + 1
    /\ UNCHANGED encoderOnly

\* w.Flush()
EncFlush ==
    /\ pc \in {"encoder", "finished"}
    /\ calls < MaxEncCalls
    /\ \E r \in {bodyFlush(sinks[1], out, wbroken)} :
         /\ sinks' = <<r.w>>
         /\ out' = r.out
         /\ ret' = [op |-> "Flush", n |-> 0, err |-> r.err, data |-> <<>>]
         /\ pc' = IF r.panic THEN "crashed" ELSE pc
    /\ calls' = calls + 1
    /\ UNCHANGED <<encoderOnly, sent>>

\* n, err := w.finish(), the first time or again.
EncFinish ==
    /\ pc = "encoder" \/ (pc = "finished" /\ calls <= MaxEncCalls)
    /\ \E r \in {bodyFinish(sinks[1], out, wbroken)} :
         /\ sinks' = <<r.w>>
         /\ out' = r.out
         /\ ret' = [op |-> IF pc = "finished" THEN "finish again" ELSE "finish",
                    n |-> r.n, err |-> r.err, data |-> <<>>]
         /\ pc' = IF r.panic THEN "crashed" ELSE "finished"
    /\ calls' = calls + 1
    /\ UNCHANGED <<encoderOnly, sent>>

EncNext ==
    \/ \E n \in WriteLens : EncWrite(n)
    \/ EncFlush
    \/ EncFinish

EncSpec == EncInit /\ [][EncNext]_vars

(***************************************************************************)
(* The acceptor.  Server.Serve calls Listener.Accept in a loop; the        *)
(* listener is the test's: it returns the head of errs with every call and *)
(* drops it unless it is the last.  An Accept error is a name; the names    *)
(* stand for os.Errno(EINTR), os.Errno(ECONNABORTED) and os.EOF.            *)
(***************************************************************************)
AcceptErrors == {"nil", "EINTR", "ECONNABORTED", "EOF"}

\* e.(net.Error) succeeds: os.Errno has Timeout and Temporary, os.EOF has not.
isNetError(e) == e \in {"EINTR", "ECONNABORTED"}
\* os.Errno.Temporary
Temporary(e) == e = "EINTR"

\* Serve that returns on every Accept error.
serveStepStrict(e) == IF e /= "nil" THEN "return" ELSE "go"
\* What one turn of Serve's loop does with the error Accept returned.
serveStep(e) ==
    IF e /= "nil"
    THEN IF isNetError(e) /\ Temporary(e) THEN "continue" ELSE "return"
    ELSE "go"

\* The scripts of the listener: os.Error values, at least one.
ListenerErrs ==
    UNION {[1..n -> AcceptErrors] : n \in 1..MaxErrs}

ServeInit ==
    /\ errs \in ListenerErrs
    /\ accepted = <<>>
    /\ served = <<>>
    /\ serveErr = "none"
    /\ ws = NoConn
    /\ other = NoConn
    /\ conns = OneWorker
    /\ sent = <<>>
    /\ NoRecoverHandlers = FALSE
    /\ inp = <<>>
    /\ inEnd = "eof"
    /\ out = <<>>
    /\ closed = 0
    /\ wbroken = FALSE
    /\ pc = "loop"
    /\ t = newTransaction
    /\ sinks = <<>>
    /\ sinkTx = <<>>
    /\ txn = 0
    /\ calls = 0
    /\ ret = NoRet
    /\ outTx = <<>>
    /\ got = <<>>
    /\ afterHead = <<>>
    /\ prelude = <<>>
    /\ given = EmptyHeader

\* One turn of the loop: Accept, then continue, return or go serveConnection.
ServeAccept ==
    /\ serveErr = "none"
    /\ Len(accepted) < MaxAccepts
    /\ LET e == errs[1]
           step == serveStep(e)
       IN  /\ errs' = IF Len(errs) > 1 THEN Tail(errs) ELSE errs
           /\ accepted' = Append(accepted, e)
           /\ served' = IF step = "go" THEN Append(served, Len(accepted) + 1) ELSE served
           /\ serveErr' = IF step = "return" THEN e ELSE "none"
    /\ UNCHANGED <<workerVars, wsVars, pairVars, sent>>

ServeSpec == ServeInit /\ [][ServeAccept]_vars

(***************************************************************************)
(* WriteHttpHeader alone: a header map whose values hold carriage returns  *)
(* and line feeds is written to an empty buffer.                           *)
(***************************************************************************)
\* The bytes of the values, and the values up to MaxValueLen bytes.
ValueBytes == {"x", "\r", "\n"}
HeaderValues == UNION {[1..n -> ValueBytes] : n \in 0..MaxValueLen}

\* The value lists of the first key: one value, or two of which the second
\* is a line feed or a plain byte.  Those of the second key: none (the key
\* is absent), a plain value, or a value that is a line break followed by
\* what looks like another header.
FirstValueLists ==
    {<<v>> : v \in HeaderValues}
    \cup {<<v, w>> : v \in HeaderValues, w \in {<<"\n">>, <<"y">>}}
SecondValueLists == {<<>>, <<<<"z">>>>, <<<<"\r", "\n", "X", ":", " ", "1">>>>}

WrittenHeaders ==
    {IF l2 = <<>> THEN (HeaderContentType :> l1)
     ELSE (HeaderContentType :> l1) @@ (HeaderLocation :> l2) :
        l1 \in FirstValueLists, l2 \in SecondValueLists}

HeaderInit ==
    /\ given \in WrittenHeaders
    /\ pc = "header"
    /\ out = <<>>
    /\ ret = NoRet
    /\ errs = <<>>
    /\ accepted = <<>>
    /\ served = <<>>
    /\ serveErr = "none"
    /\ ws = NoConn
    /\ other = NoConn
    /\ conns = OneWorker
    /\ sent = <<>>
    /\ NoRecoverHandlers = FALSE
    /\ inp = <<>>
    /\ inEnd = "eof"
    /\ closed = 0
    /\ wbroken = FALSE
    /\ t = newTransaction
    /\ sinks = <<>>
    /\ sinkTx = <<>>
    /\ txn = 0
    /\ calls = 0
    /\ outTx = <<>>
    /\ got = <<>>
    /\ afterHead = <<>>
    /\ prelude = <<>>

\* header.WriteHttpHeader(&b), the map iterated in some order.
HeaderWrite ==
    /\ pc = "header"
    /\ \E order \in KeyOrders(DOMAIN given) :
         /\ out' = out \o WriteHttpHeader(given, order)
         /\ ret' = [op |-> "WriteHttpHeader", n |-> 0, err |-> "nil", data |-> <<>>]
    /\ pc' = "written"
    /\ UNCHANGED <<acceptorVars, wsVars, pairVars, sent, NoRecoverHandlers, inp, inEnd, closed, wbroken, t,
                   sinks, sinkTx, txn, calls, outTx, got, afterHead, prelude, given>>

HeaderSpec == HeaderInit /\ [][HeaderWrite]_vars

(***************************************************************************)
(* The websocket handler of the test: Upgrade, then an echo of every       *)
(* message, served by the connection worker.                               *)
(***************************************************************************)
\* The request of a client that asks for the upgrade: conn, upg, origin, k1
\* and k2 are the values of its headers, <<>> for a header it does not send.
OptHdr(name, value) == IF value = <<>> THEN <<>> ELSE Hdr(name, value)
UpgradeRequest(method, conn, upg, origin, k1, k2) ==
    ReqLine(method, "1") \o Hdr(HeaderHost, <<"h">>)
    \o OptHdr(HeaderConnection, conn) \o OptHdr(HeaderUpgrade, upg)
    \o OptHdr(HeaderOrigin, origin)
    \o OptHdr(HeaderSecWebSocketKey1, k1) \o OptHdr(HeaderSecWebSocketKey2, k2) \o CRLF

vUpgrade == <<"U","p","g","r","a","d","e">>
vWebSocket == <<"W","e","b","S","o","c","k","e","t">>
vOrigin == <<"o">>
\* 12 with two spaces, 4 with one.
vKey1 == <<"1", " ", " ", "2">>
vKey2 == <<"4", " ", "x">>
\* The keys of webSocketTests.
testKey1 == <<"2","8","4","<","q","Q","A","8","4","i","9","2","7","0","8"," "," ","/">>
testKey2 == <<"z"," ","4"," ","d","0"," ","3"," ","0","a",">","m","U"," ","7","N"," ","1","@",
              "9","9","1","H","P"," ","I"," ","{","2">>
key3 == <<"1","2","3","4","5","6","7","8">>

GoodUpgrade == UpgradeRequest(sGET, vUpgrade, vWebSocket, vOrigin, vKey1, vKey2)
GoodUpgrades ==
    {GoodUpgrade,
     UpgradeRequest(sGET, ToUpper(vUpgrade), ToLower(vWebSocket), vOrigin, vKey1, vKey2),
     UpgradeRequest(sGET, vUpgrade, vWebSocket, vOrigin, testKey1, testKey2)}
\* Requests Upgrade is to refuse: one for each check.
BadUpgrades ==
    {UpgradeRequest(sPOST, vUpgrade, vWebSocket, vOrigin, vKey1, vKey2),
     UpgradeRequest(sGET, vUpgrade, vWebSocket, <<>>, vKey1, vKey2),
     UpgradeRequest(sGET, sKeepAlive, vWebSocket, vOrigin, vKey1, vKey2),
     UpgradeRequest(sGET, <<>>, vWebSocket, vOrigin, vKey1, vKey2),
     UpgradeRequest(sGET, vUpgrade, <<"h", "2", "c">>, vOrigin, vKey1, vKey2),
     UpgradeRequest(sGET, vUpgrade, <<>>, vOrigin, vKey1, vKey2),
     UpgradeRequest(sGET, vUpgrade, vWebSocket, vOrigin, <<>>, vKey2),
     UpgradeRequest(sGET, vUpgrade, vWebSocket, vOrigin, vKey1, <<>>),
     UpgradeRequest(sGET, vUpgrade, vWebSocket, vOrigin, <<"1", "2">>, vKey2),
     UpgradeRequest(sGET, vUpgrade, vWebSocket, vOrigin, vKey1, <<"3", " ", " ", "x">>),
     Get11}

\* Frames: a payload of n bytes between the bytes 0 and 0xff.
Payload(n) == SubSeq(<<"a", "b", "c", "d", "e", "f", "g">>, 1, n)
Frame(p) == <<Zero>> \o p \o <<ByteFF>>
FrameSeqs ==
    {<<>>}
    \cup {Frame(Payload(i)) : i \in 0..MaxPayload}
    \cup {Frame(Payload(i)) \o Frame(Payload(j)) : i, j \in 0..MaxPayload}
    \cup {<<Zero, "a">>, <<"a", ByteFF>>}

WsStreams ==
    {GoodUpgrade \o key3 \o f : f \in FrameSeqs}
    \cup {u \o key3 \o Frame(Payload(1)) : u \in GoodUpgrades}
    \cup {GoodUpgrade \o <<"1", "2">>}
    \cup {u \o f : u \in BadUpgrades, f \in {<<>>, Get11}}

\* The read buffer sizes the handler passes to Upgrade.
ReadBufSizes == {2, 3}

WsInit ==
    /\ inp \in WsStreams
    /\ inEnd = "eof"
    /\ NoRecoverHandlers = FALSE
    /\ out = <<>>
    /\ closed = 0
    /\ wbroken = FALSE
    /\ pc = "loop"
    /\ t = newTransaction
    /\ sinks = <<>>
    /\ sinkTx = <<>>
    /\ txn = 0
    /\ calls = 0
    /\ ret = NoRet
    /\ outTx = <<>>
    /\ got = <<>>
    /\ afterHead = <<>>
    /\ prelude = <<>>
    /\ given = EmptyHeader
    /\ sent = <<>>
    /\ errs = <<>>
    /\ accepted = <<>>
    /\ served = <<>>
    /\ serveErr = "none"
    /\ ws = NoConn
    /\ other = NoConn
    /\ conns = OneWorker

\* c, err := Upgrade(req, size, 1024, nil), the first statement of the handler.
WsUpgrade(size) ==
    /\ pc = "handler"
    /\ ret.op = "none"
    /\ \E c \in {upgradeCheck(t.req)} :
         IF c.err /= "nil"
         THEN \E order \in KeyOrders(DOMAIN respondHeader(t, c.status, EmptyHeader)) :
              \E r \in {Respond(t, c.status, EmptyHeader, order, out, wbroken)} :
                /\ t' = [r.t EXCEPT !.responseBody = IF r.fresh THEN Len(sinks) + 1 ELSE @]
                /\ sinks' = Append(sinks, r.body)
                /\ sinkTx' = Append(sinkTx, txn)
                /\ out' = r.out
                /\ outTx' = Tagged(r.out, txn)
                /\ prelude' = IF r.fresh THEN r.prelude ELSE prelude
                /\ given' = IF r.fresh THEN EmptyHeader ELSE given
                /\ ret' = [op |-> "Upgrade", n |-> c.status, err |-> c.err, data |-> <<>>]
                /\ UNCHANGED <<inp, pc, closed, ws>>
         ELSE \E order \in KeyOrders(DOMAIN handshakeHeader(t.req)) :
              \E k \in {handshake(t.req, inp, inEnd, out, wbroken, order)} :
                /\ t' = Hijack(t).t
                /\ inp' = k.rest
                /\ out' = k.out
                /\ outTx' = Tagged(k.out, txn)
                /\ prelude' = k.prelude
                /\ ws' = IF k.err = "nil" THEN [open |-> TRUE, hasMore |-> FALSE, size |-> size]
                         ELSE NoConn
                /\ closed' = IF k.open THEN closed ELSE closed + 1
                /\ pc' = IF k.err = "nil" THEN "ws"
                         ELSE IF k.err = "block" THEN "blocked" ELSE "handler"
                /\ ret' = [op |-> "Upgrade", n |-> 0, err |-> k.err, data |-> <<>>]
                /\ UNCHANGED <<sinks, sinkTx, given>>
    /\ UNCHANGED <<acceptorVars, pairVars, sent, NoRecoverHandlers, inEnd, wbroken, txn, calls, got,
                   afterHead>>

\* m, hasMore, err := c.ReadMessage(); a = append(a, m...).  On an error the
\* handler returns and its deferred c.Close() runs.
WsReadMessage ==
    /\ pc = "ws"
    /\ \E r \in {ReadMessage(ws, inp, inEnd)} :
         /\ inp' = r.rest
         /\ ws' = IF r.err \in {"nil", "block"} THEN r.conn ELSE [r.conn EXCEPT !.open = FALSE]
         /\ got' = got \o r.chunk
         /\ pc' = IF r.err = "block" THEN "blocked"
                  ELSE IF r.err /= "nil" THEN "handler"
                  ELSE IF r.hasMore THEN "ws" ELSE "ws reply"
         /\ closed' = IF r.err \in {"nil", "block"} THEN closed ELSE closed + 1
         /\ ret' = [op |-> "ReadMessage", n |-> IF r.hasMore THEN 1 ELSE 0, err |-> r.err,
                    data |-> r.chunk]
    /\ UNCHANGED <<acceptorVars, pairVars, sent, NoRecoverHandlers, inEnd, out, wbroken, t, sinks,
                   sinkTx, txn, calls, outTx, afterHead, prelude, given>>

\* err := c.WriteMessage(a)
WsWriteMessage ==
    /\ pc = "ws reply"
    /\ \E w \in {WriteMessage(out, wbroken, got)} :
         /\ out' = w.out
         /\ outTx' = Tagged(w.out, txn)
         /\ ws' = IF w.err = "nil" THEN ws ELSE [ws EXCEPT !.open = FALSE]
         /\ pc' = IF w.err = "nil" THEN "ws" ELSE "handler"
         /\ closed' = IF w.err = "nil" THEN closed ELSE closed + 1
         /\ ret' = [op |-> "WriteMessage", n |-> 0, err |-> w.err, data |-> got]
    /\ got' = <<>>
    /\ UNCHANGED <<acceptorVars, pairVars, sent, NoRecoverHandlers, inp, inEnd, wbroken, t, sinks,
                   sinkTx, txn, calls, afterHead, prelude, given>>

WsNext ==
    \/ Prepare
    \/ \E size \in ReadBufSizes : WsUpgrade(size)
    \/ WsReadMessage
    \/ WsWriteMessage
    \/ /\ pc = "handler"
       /\ ret.op /= "none"
       /\ \E order \in finishOrders : HandlerReturn(order)

WsSpec == WsInit /\ [][WsNext]_vars


(***************************************************************************)
(* Two connections, each served by its own worker goroutine.  What the     *)
(* goroutines work on is kept as objects: conns holds the connections      *)
(* (net.Conn and the bufio.Reader over it, one for each accepted           *)
(* connection) and the transactions with their encoders, in the order of   *)
(* their allocation; other holds the local variables of each goroutine,    *)
(* which point to these objects.  The Server s is the one object both      *)
(* goroutines are started with; of its fields the steps read               *)
(* NoRecoverHandlers.  A step of a goroutine reads and writes the objects  *)
(* its local variables point to; the steps of serveConnection assign to no *)
(* field of s and to no package variable.                                  *)
(*                                                                         *)
(* A goroutine takes one step from one point where it can wait, or where   *)
(* the scheduler can run the other one, to the next: the allocation of the *)
(* transaction, the read of the request line, the read of each line of the *)
(* header block (the last one with the rest of prepare), each call of the  *)
(* handler, finish, and the decision of the loop with conn.Close().  The   *)
(* bytes of a stream arrive in segments; a read waits until its line has   *)
(* arrived, and for ever when the client has sent everything and keeps the *)
(* connection open.  The handler responds with status 200 and no header,   *)
(* writes a body when the method is POST, and returns.                     *)
(***************************************************************************)
\* The streams of the first and of the second connection, each with what
\* the client does after sending it: close ("eof") or keep it open ("block").
PairFirst ==
    {<<Get11 \o Post11Len2, "eof">>, <<Post11Chunked, "block">>, <<BadLine, "eof">>,
     <<Get10KeepAlive \o Get11, "block">>, <<NoColon, "eof">>}
PairSecond == {<<Get11, "block">>, <<Post11Len2, "eof">>, <<Head11, "eof">>}

\* One iteration order for each key set.
fixedOrder(keys) == CHOOSE o \in KeyOrders(keys) : TRUE

\* No request line read yet.
NoLine == [err |-> "none"]

\* serveConnection on one connection, the objects it works on gathered in
\* the record w: the stream (inp the bytes that have arrived, pending the
\* ones that have not, inEnd what a read meets after inp), the transaction
\* t, the encoder body of the transaction, the number n of encoders handed
\* out, and inside prepare the request line rl and the header lines hdr
\* read so far.
connStart(stream, end) ==
    [pc |-> "loop", inp |-> stream, pending |-> <<>>, inEnd |-> end, out |-> <<>>,
     closed |-> 0, t |-> newTransaction, ret |-> NoRet, body |-> blankBody, n |-> 0,
     rl |-> NoLine, hdr |-> <<>>]

\* The loop after prepare has returned r = [err, t, rest]: into the
\* handler, or break and conn.Close(); a panic goes to the deferred recover.
endPrepare(w, r) ==
    LET rec == recoverPanic(NoRecoverHandlers, r.t, w.closed)
    IN  [w EXCEPT !.inp = r.rest, !.t = r.t, !.rl = NoLine, !.hdr = <<>>,
                  !.pc = IF r.err = "nil" THEN "handler"
                         ELSE IF r.err = "block" THEN "blocked"
                         ELSE IF r.err = "panic" THEN rec.pc ELSE "closed",
                  !.closed = IF r.err \in {"nil", "block"} THEN @
                             ELSE IF r.err = "panic" THEN rec.closed ELSE @ + 1]

\* prepare at the read of the next line of the header block: r is what
\* ReadSlice returned, hd the header block parsed as far as it has been read.
headerStep(w, r, hd) ==
    IF r.err = "block" THEN [w EXCEPT !.pc = "blocked"]
    ELSE IF r.err /= "nil"
    THEN endPrepare(w, prepareHeader(w.rl, ParseHttpHeader(w.hdr \o w.inp, w.inEnd)))
    ELSE IF hd.err = "block" THEN [w EXCEPT !.inp = r.rest, !.hdr = w.hdr \o r.line]
    ELSE endPrepare(w, prepareHeader(w.rl, [hd EXCEPT !.rest = r.rest]))

\* prepare at the read of the request line: rl is what readRequestLine
\* returned.
lineStep(w, rl) ==
    IF rl.err = "nil" THEN [w EXCEPT !.pc = "header", !.inp = rl.rest, !.rl = rl, !.hdr = <<>>]
    ELSE endPrepare(w, prepareLine(rl, w.inEnd))

\* One step of serveConnection and of the handler.
connStep(w) ==
    IF w.pc = "loop"
    THEN [w EXCEPT !.pc = "prepare", !.t = newTransaction, !.body = blankBody, !.ret = NoRet]
    ELSE IF w.pc = "prepare" THEN lineStep(w, readRequestLine(w.inp, w.inEnd))
    ELSE IF w.pc = "header"
    THEN LET r == ReadSlice(w.inp, w.inEnd)
         IN  headerStep(w, r, ParseHttpHeader(w.hdr \o r.line, "block"))
    ELSE IF w.pc = "finished"
    THEN IF w.t.closeAfterResponse THEN [w EXCEPT !.pc = "closed", !.closed = @ + 1]
         ELSE [w EXCEPT !.pc = "loop"]
    ELSE IF w.pc /= "handler" THEN w
    ELSE IF ~w.t.respondCalled
    THEN LET r == Respond(w.t, StatusOK, EmptyHeader,
                          fixedOrder(DOMAIN respondHeader(w.t, StatusOK, EmptyHeader)),
                          w.out, FALSE)
         IN  [w EXCEPT !.t = [r.t EXCEPT !.responseBody = w.n + 1], !.body = r.body,
                       !.out = r.out, !.n = @ + 1,
                       !.ret = [op |-> "Respond", n |-> w.n + 1, err |-> "nil", data |-> <<>>]]
    ELSE IF w.ret.op = "Respond" /\ w.t.req.Method = sPOST
    THEN LET r == bodyWrite(w.body, w.out, FALSE, <<"H", "i">>)
             rec == recoverPanic(NoRecoverHandlers, w.t, w.closed)
         IN  [w EXCEPT !.body = r.w, !.out = r.out,
                       !.ret = [op |-> "Write", n |-> r.n, err |-> r.err, data |-> <<"H", "i">>],
                       !.pc = IF r.panic THEN rec.pc ELSE @,
                       !.closed = IF r.panic THEN rec.closed ELSE @]
    ELSE LET r == finish(w.t, w.body, fixedOrder(DOMAIN defaultHeader), w.out, FALSE)
             rec == recoverPanic(NoRecoverHandlers, r.t, w.closed)
         IN  [w EXCEPT !.t = r.t, !.body = r.body, !.out = r.out,
                       !.ret = [op |-> "return", n |-> 0, err |-> "nil", data |-> <<>>],
                       !.pc = IF r.panic THEN rec.pc ELSE "finished",
                       !.closed = IF r.panic THEN rec.closed ELSE @]

\* No transaction: the value of "var t *transaction".
NilT == 0
\* One transaction object for the whole server.
allocTransactionShared(heap) == 1
\* t = &transaction{server: s, conn: conn, br: br}: the place of the new
\* object among the transactions allocated so far.
allocTransaction(heap) == Len(heap.tx) + 1

\* The connection object Accept returned for a stream of which nothing has
\* arrived, and the local variables of the goroutine started on connection c.
NewConn(stream, end) ==
    [inp |-> <<>>, pending |-> stream, end |-> end, out |-> <<>>, closed |-> 0]
NewLocals(c) ==
    [conn |-> c, t |-> NilT, pc |-> "loop", ret |-> NoRet, n |-> 0, rl |-> NoLine,
     hdr |-> <<>>]

\* What goroutine i works on, reached through its local variables.
Reached(i) ==
    LET l == other[i]
        c == conns.conn[l.conn]
        tx == IF l.t = NilT THEN [t |-> newTransaction, body |-> blankBody]
              ELSE conns.tx[l.t]
    IN  [pc |-> l.pc, inp |-> c.inp, pending |-> c.pending,
         inEnd |-> IF c.pending = <<>> THEN c.end ELSE "block",
         out |-> c.out, closed |-> c.closed, t |-> tx.t,
         ret |-> l.ret, body |-> tx.body, n |-> l.n, rl |-> l.rl, hdr |-> l.hdr]

PairInit ==
    /\ \E c1 \in PairFirst : \E c2 \in PairSecond :
         conns = [streams |-> <<c1[1], c2[1]>>, ends |-> <<c1[2], c2[2]>>,
                  conn |-> <<NewConn(c1[1], c1[2]), NewConn(c2[1], c2[2])>>, tx |-> <<>>]
    /\ other = <<NewLocals(1), NewLocals(2)>>
    /\ inp = <<>>
    /\ inEnd = "eof"
    /\ NoRecoverHandlers = FALSE
    /\ out = <<>>
    /\ closed = 0
    /\ wbroken = FALSE
    /\ pc = "loop"
    /\ t = newTransaction
    /\ sinks = <<>>
    /\ sinkTx = <<>>
    /\ txn = 0
    /\ calls = 0
    /\ ret = NoRet
    /\ outTx = <<>>
    /\ got = <<>>
    /\ afterHead = <<>>
    /\ prelude = <<>>
    /\ given = EmptyHeader
    /\ sent = <<>>
    /\ errs = <<>>
    /\ accepted = <<>>
    /\ served = <<>>
    /\ serveErr = "none"
    /\ ws = NoConn

\* The lengths of the segment that arrives next: up to the end of the
\* first line that has not arrived, or all the rest; the first segment of a
\* stream may also end in the middle of the request line.
SegmentLens(p, first) ==
    LET j == IndexByte(p, "\n")
    IN  {IF j > 0 THEN j ELSE Len(p), Len(p)} \cup (IF first THEN {Min(3, Len(p))} ELSE {})

\* The network delivers the next segment of the stream of connection c.
Deliver(c) ==
    /\ conns.streams /= <<>>
    /\ conns.conn[c].pending /= <<>>
    /\ \E k \in SegmentLens(conns.conn[c].pending,
                            conns.conn[c].pending = conns.streams[c]) :
         conns' = [conns EXCEPT
                     !.conn[c].inp = @ \o SubSeq(conns.conn[c].pending, 1, k),
                     !.conn[c].pending = Tail1(@, k + 1)]
    /\ UNCHANGED <<workerVars, sent, acceptorVars, wsVars, other>>

\* Goroutine i takes its next step: at the top of the loop it allocates a
\* transaction, otherwise it works on the transaction its local variable t
\* points to; what the step writes goes to its connection and to that
\* transaction.  A read that has to wait for bytes still to arrive is not
\* taken.
PairStep(i) ==
    /\ conns.streams /= <<>>
    /\ \E w \in {Reached(i)} : \E w2 \in {connStep(w)} :
       \E at \in {IF w.pc = "loop" THEN allocTransaction(conns) ELSE other[i].t} :
         /\ w2 /= w
         /\ ~(w2.pc = "blocked" /\ w.pending /= <<>>)
         /\ other' = [other EXCEPT ![i] = [conn |-> other[i].conn, t |-> at, pc |-> w2.pc,
                                           ret |-> w2.ret, n |-> w2.n, rl |-> w2.rl,
                                           hdr |-> w2.hdr]]
         /\ conns' = [conns EXCEPT
                        !.conn[other[i].conn].inp = w2.inp,
                        !.conn[other[i].conn].out = w2.out,
                        !.conn[other[i].conn].closed = w2.closed,
                        !.tx = IF at > Len(conns.tx)
                               THEN Append(conns.tx, [t |-> w2.t, body |-> w2.body])
                               ELSE [conns.tx EXCEPT ![at] = [t |-> w2.t, body |-> w2.body]]]
    /\ UNCHANGED <<workerVars, sent, acceptorVars, wsVars>>

PairNext ==
    \/ \E i \in {1, 2} : PairStep(i)
    \/ \E c \in {1, 2} : Deliver(c)

PairSpec == PairInit /\ [][PairNext]_vars


(***************************************************************************)
(* Functions applied to one input: the input is in inp (bytes) or given (a *)
(* header map), pc names the function, and the step that applies it puts   *)
(* what it returns in ret.                                                 *)
(***************************************************************************)
FunctionInit(label, bytes, header) ==
    /\ pc = label
    /\ inp = bytes
    /\ given = header
    /\ inEnd = "eof"
    /\ NoRecoverHandlers = FALSE
    /\ out = <<>>
    /\ closed = 0
    /\ wbroken = FALSE
    /\ t = newTransaction
    /\ sinks = <<>>
    /\ sinkTx = <<>>
    /\ txn = 0
    /\ calls = 0
    /\ ret = NoRet
    /\ outTx = <<>>
    /\ got = <<>>
    /\ afterHead = <<>>
    /\ prelude = <<>>
    /\ sent = <<>>
    /\ errs = <<>>
    /\ accepted = <<>>
    /\ served = <<>>
    /\ serveErr = "none"
    /\ ws = NoConn
    /\ other = NoConn
    /\ conns = OneWorker
functionOnly == <<acceptorVars, wsVars, pairVars, sent, NoRecoverHandlers, inp, inEnd, out, closed,
                  wbroken, t, sinks, sinkTx, txn, calls, outTx, got, afterHead, prelude, given>>

\* ---- webSocketKey on the value of Sec-Websocket-Key1
KeyBytes == {"1", "9", " ", "x"}
wrapKey == <<"4","2","9","4","9","6","7","2","9","7"," ","x">>
KeyValues ==
    UNION {[1..n -> KeyBytes] : n \in 1..MaxKeyLen} \cup {testKey1, testKey2, wrapKey}
KeyHeaders ==
    {EmptyHeader} \cup {Add(EmptyHeader, HeaderSecWebSocketKey1, v) : v \in KeyValues}

KeyInit == \E h \in KeyHeaders : FunctionInit("key", <<>>, h)
KeyApply ==
    /\ pc = "key"
    /\ \E r \in {webSocketKey([Header |-> given], HeaderSecWebSocketKey1)} :
         ret' = [op |-> "webSocketKey", n |-> Len(r.key), err |-> r.err, data |-> r.key]
    /\ pc' = "keyed"
    /\ UNCHANGED functionOnly
KeySpec == KeyInit /\ [][KeyApply]_vars


\* ---- newChunkedResponseBody on a buffer size
\* The sizes tried: every small one, and those around the powers of 16 up to
\* the size of the server's buffer.
BufferSizes ==
    1..MaxBufferSize
    \cup {chunkTestBufferSize, bufferSize}
    \cup {255, 256, 257, bufferSize - 1, bufferSize + 1}
DigitInit == \E size \in BufferSizes : FunctionInit("new", <<size>>, EmptyHeader)
DigitApply ==
    /\ pc = "new"
    /\ \E r \in {newChunkedResponseBody(out, wbroken, <<>>, inp[1])} :
         /\ sinks' = <<r.w>>
         /\ ret' = [op |-> "newChunkedResponseBody", n |-> r.w.ndigit, err |-> r.err,
                    data |-> <<>>]
    /\ pc' = "made"
    /\ UNCHANGED <<acceptorVars, wsVars, pairVars, sent, NoRecoverHandlers, inp, inEnd, out, closed,
                   wbroken, t, sinkTx, txn, calls, outTx, got, afterHead, prelude, given>>
DigitSpec == DigitInit /\ [][DigitApply]_vars


\* ---- ParseFormEncodedBytes on a form
FormBytes == {"x", "=", "&", "%", "2", "4", "+"}
FormInputs ==
    {<<>>} \cup UNION {[1..n -> FormBytes] : n \in 1..MaxFormLen}
FormInit == \E p \in FormInputs : FunctionInit("form", p, EmptyHeader)
FormApply ==
    /\ pc = "form"
    /\ \E r \in {ParseFormEncodedBytes(EmptyHeader, inp)} :
         /\ given' = r.m
         /\ ret' = [op |-> "ParseFormEncodedBytes", n |-> 0, err |-> r.err, data |-> <<>>]
    /\ pc' = "parsed"
    /\ UNCHANGED <<acceptorVars, wsVars, pairVars, sent, NoRecoverHandlers, inp, inEnd, out, closed,
                   wbroken, t, sinks, sinkTx, txn, calls, outTx, got, afterHead, prelude>>
FormSpec == FormInit /\ [][FormApply]_vars


\* ---- ParseHttpHeader on a header block
\* Lines of a header block: well-formed ones, a continuation, a token alone,
\* a token followed by something other than a colon, an empty name, a name
\* that is not a token.
HeaderLines ==
    {<<"A", ":", " ", "b">>, <<"A", ":">>, <<"A", " ", ":", "b">>, <<"B", ":", "c">>,
     <<" ", "c">>, <<"\t">>, <<"A">>, <<"A", " ">>, <<"A", " ", "b">>, <<":", " ", "b">>,
     <<"@", ":", " ", "b">>}
HeaderBlocks ==
    {l \o CRLF \o CRLF : l \in HeaderLines}
    \cup {l1 \o CRLF \o l2 \o CRLF \o CRLF : l1, l2 \in HeaderLines}
    \cup {CRLF, <<"A", ":", "b", "\n", "\n">>, <<"A", ":", "b">>}
ParseInit == \E b \in HeaderBlocks : FunctionInit("block", b, EmptyHeader)
ParseApply ==
    /\ pc = "block"
    /\ \E r \in {ParseHttpHeader(inp, inEnd)} :
         /\ given' = r.header
         /\ got' = r.rest
         /\ ret' = [op |-> "ParseHttpHeader", n |-> 0, err |-> r.err, data |-> <<>>]
    /\ pc' = "block parsed"
    /\ UNCHANGED <<acceptorVars, wsVars, pairVars, sent, NoRecoverHandlers, inp, inEnd, out, closed,
                   wbroken, t, sinks, sinkTx, txn, calls, outTx, afterHead, prelude>>
ParseSpec == ParseInit /\ [][ParseApply]_vars

\* ---- chunked request bodies with damaged framing
ChunkHead == ReqLine(sPOST, "1") \o Hdr(HeaderTransferEncoding, sChunked) \o CRLF
ChunkOfA == <<"1">> \o CRLF \o <<"a">>
LastChunk == <<"0">> \o CRLF \o CRLF
\* The two bytes sent after the data of the chunk.
ChunkSeparators == {CRLF, <<"\r", "X">>, <<"X", "\n">>, <<"X", "Y">>}
\* Chunk-size lines that are not hexadecimal numbers.
BadSizeLines == {<<"g">>, <<"1", "x">>}
ChunkBodies ==
    {ChunkOfA \o sep \o LastChunk : sep \in ChunkSeparators}
    \cup {size \o CRLF \o <<"a">> \o CRLF \o LastChunk : size \in BadSizeLines}
ChunkStreams == {ChunkHead \o b \o f : b \in ChunkBodies, f \in {<<>>, Get11}}

\* A worker on a connection that carries one of these requests.
ChunkInit == \E s \in ChunkStreams : FunctionInit("loop", s, EmptyHeader)
ChunkSpec == ChunkInit /\ [][Next]_vars


(***************************************************************************)
(* Properties of the connection worker.                                    *)
(***************************************************************************)
Nondecreasing(q) == \A i \in 1..(Len(q) - 1) : q[i] <= q[i + 1]

\* C1: the transactions of a connection run strictly one after another, so
\* every response byte of request k is on the wire before any response byte
\* of request k+1: the transaction tags of the bytes written never decrease,
\* and while a handler runs every encoder of an earlier transaction has been
\* finished and accepts nothing more.
C1_ResponsesInRequestOrder ==
    /\ Nondecreasing(outTx)
    /\ pc = "handler" => \A i \in DOMAIN sinks : sinkTx[i] < txn => sinks[i].err /= "nil"

\* Two pipelined requests have both been answered, after the handler of the
\* second one used an encoder of the first.
C1_Witness ==
    /\ txn = 2
    /\ ret.op = "return"
    /\ \E i \in DOMAIN outTx : outTx[i] = 1
    /\ \E i \in DOMAIN outTx : outTx[i] = 2
    /\ \E i \in DOMAIN sinks : sinkTx[i] = 1
    /\ calls = MaxCalls

\* ---- persistence
requestChunked(req) ==
    LET te == GetList(req.Header, HeaderTransferEncoding) IN Len(te) > 0 /\ te[1] = sChunked

\* The number of stream bytes the body of the current request takes up.
EncodedBodyLen ==
    IF t.req.Method \in {sGET, sHEAD} THEN 0
    ELSE IF requestChunked(t.req)
    THEN (IF HasPrefix(afterHead, ChunkedA) THEN Len(ChunkedA) ELSE Len(ChunkedEmpty))
    ELSE t.req.ContentLength

\* The request allows the connection to persist: version and Connection header
\* allow it, the body is delimited, and the stream has been consumed to the end
\* of the body.
RequestPermits ==
    /\ ~closeFromRequest(t.req.ProtocolVersion,
                         ToLower(Get(t.req.Header, HeaderConnection)), t.req.ContentLength)
    /\ t.req.Method \in {sGET, sHEAD} \/ requestChunked(t.req) \/ t.req.ContentLength >= 0
    /\ Len(afterHead) - Len(inp) >= EncodedBodyLen

\* The response allows it: its length is known or it is chunked, and finish
\* reported no error.
ResponsePermits ==
    /\ \/ t.status = StatusNotModified
       \/ Get(given, HeaderContentLength) /= <<>>
       \/ t.req.ProtocolVersion >= ProtocolVersion(1, 1)
    /\ t.responseErr = "ErrInvalidState"

\* C2: after a transaction finishes, the loop goes on to the next request
\* on the stream if and only if the request (version, Connection header, body
\* fully consumed) and the response (known length or chunked, no write error)
\* both permitted persistence; otherwise it closes the stream.
C2_PersistsIffPermitted ==
    (ret.op = "return" /\ pc \in {"loop", "closed"})
        => (pc = "loop" <=> (RequestPermits /\ ResponsePermits))

\* ---- body of declared length
LengthCase ==
    /\ t.req /= NoReq
    /\ t.req.Method \notin {sGET, sHEAD}
    /\ ~requestChunked(t.req)
    /\ t.req.ContentLength >= 0

\* C3: for a non-GET/HEAD request with Content-Length L >= 0, not chunked,
\* the reads of the body return exactly the L bytes that follow the header
\* block, in order, and every read after the L-th byte returns EOF, whatever
\* follows the body on the stream.
C3_LengthBodyThenEOF ==
    (LengthCase /\ ret.op = "Read" /\ ~t.respondCalled /\ ~t.hijacked)
        => /\ Len(got) <= t.req.ContentLength
           /\ got = SubSeq(afterHead, 1, Len(got))
           /\ ret.err = "block" => (Len(got) < t.req.ContentLength /\ inp = <<>>)
           /\ (ret.n > 0 /\ ret.err /= "block") => ret.err = "nil"
           /\ (ret.n = 0 /\ Len(got) = t.req.ContentLength) => ret.err = "EOF"

\* ---- Respond
ConnectionClose == Hdr(HeaderConnection, sClose)

\* C4: when Respond is called while the request body is not fully consumed,
\* close-after-response is set, the committed header block carries
\* Connection: close, and the loop closes the connection after that response
\* and does not go on to another request.
C4_UnreadBodyForcesClose ==
    (t.respondCalled /\ ~t.requestConsumed)
        => /\ t.closeAfterResponse
           /\ Contains(prelude, ConnectionClose)
           /\ pc /= "loop"
           /\ ret.op = "return" => (pc = "closed" /\ closed = 1)

\* The handler answered a POST on a persistent connection without reading its
\* body, and the connection was closed after the response.
C4_Witness ==
    /\ pc = "closed"
    /\ ret.op = "return"
    /\ t.req.Method = sPOST
    /\ t.req.ContentLength = 2
    /\ got = <<>>
    /\ Get(given, HeaderContentLength) = <<"2">>
    /\ ~wbroken
    /\ HasSuffix(out, <<"H", "i">>)

\* C5: Respond takes effect at most once per transaction: a later call
\* returns a sink whose writes fail with ErrInvalidState, writes nothing to the
\* stream and leaves status, header, encoder and close-after-response as the
\* first call committed them.
C5_RespondAtMostOnce ==
    [][(pc = "handler" /\ t.respondCalled /\ ret'.op = "Respond" /\ calls' = calls + 1)
         => /\ t' = t
            /\ out' = out
            /\ prelude' = prelude
            /\ given' = given
            /\ Len(sinks') = Len(sinks) + 1
            /\ SubSeq(sinks', 1, Len(sinks)) = sinks
            /\ ret'.n = Len(sinks')
            /\ \A p \in WriteData :
                 LET r == bodyWrite(sinks'[Len(sinks')], out', wbroken', p) IN
                 r.err = "ErrInvalidState" /\ r.n = 0 /\ r.out = out']_vars

\* Respond has been called a second time in a transaction.
C5_Witness ==
    /\ pc = "handler"
    /\ ret.op = "Respond"
    /\ t.respondCalled
    /\ ~t.hijacked
    /\ t.responseBody \in DOMAIN sinks
    /\ ret.n /= t.responseBody
    /\ sinks[ret.n].err = "ErrInvalidState"
    /\ sinks[t.responseBody].err = "nil"

\* ---- invalid state
ReadsRefused ==
    \A k \in ReadLens : \A frag \in 1..k :
        LET r == bodyRead(t, inp, inEnd, out, wbroken, k, frag) IN
        r.err = "ErrInvalidState" /\ r.n = 0 /\ r.rest = inp /\ r.out = out /\ r.data = <<>>

WritesRefused ==
    \A i \in DOMAIN sinks : sinkTx[i] = txn =>
        /\ \A p \in WriteData :
             LET r == bodyWrite(sinks[i], out, wbroken, p) IN
             r.err = "ErrInvalidState" /\ r.n = 0 /\ r.out = out
        /\ LET f == bodyFlush(sinks[i], out, wbroken) IN
           f.err = "ErrInvalidState" /\ f.out = out

\* C6: once Respond has been called, every read of the request body returns
\* ErrInvalidState and consumes nothing; once Hijack has succeeded, every read
\* of the body and every write to a sink obtained from Respond returns
\* ErrInvalidState and leaves the stream untouched.
C6_InvalidStateAfterRespondOrHijack ==
    /\ (pc = "handler" /\ t.respondCalled) => ReadsRefused
    /\ (pc = "handler" /\ t.hijacked) => (ReadsRefused /\ WritesRefused)
    /\ (ret.op = "Read" /\ (t.respondCalled \/ t.hijacked))
           => (ret.err = "ErrInvalidState" /\ ret.n = 0)
    /\ (ret.op = "Write" /\ t.hijacked) => (ret.err = "ErrInvalidState" /\ ret.n = 0)

\* The handler read the body after Respond while body bytes were waiting on
\* the stream.
C6_Witness ==
    /\ pc = "handler"
    /\ ret.op = "Read"
    /\ ret.err = "ErrInvalidState"
    /\ t.respondCalled
    /\ t.req.Method = sPOST
    /\ inp = afterHead
    /\ HasPrefix(inp, BodyAB)

\* C7: a Hijack after Respond returns ErrInvalidState and leaves the
\* transaction as it was, so that when the handler returns the loop finishes
\* the committed response and does not treat the stream as hijacked.
C7_HijackOnlyBeforeRespond ==
    [][/\ (pc = "handler" /\ t.respondCalled /\ ret'.op = "Hijack" /\ calls' = calls + 1)
          => /\ ret'.err = "ErrInvalidState"
             /\ t' = t
             /\ out' = out
             /\ sinks' = sinks
             /\ pc' = "handler"
       /\ (pc = "handler" /\ t.respondCalled /\ ret.op = "Hijack" /\ ret'.op = "return")
          => /\ pc' \in {"loop", "closed"}
             /\ ~t'.hijacked
             /\ sinks'[t.responseBody].err /= "nil"
             /\ t'.responseBody = 0]_vars

\* Hijack has been called after Respond and refused.
C7_Witness ==
    /\ pc = "handler"
    /\ ret.op = "Hijack"
    /\ ret.err = "ErrInvalidState"
    /\ t.respondCalled
    /\ ~t.hijacked

\* C8: after a successful Hijack the server leaves the stream alone: it does
\* not finish the transaction, does not close the stream, reads nothing from
\* it and writes nothing to it, also when the handler later calls Respond or
\* panics; the worker only returns.
C8_HijackedStreamLeftAlone ==
    [][t.hijacked
         => /\ closed' = closed
            /\ out' = out
            /\ inp' = inp
            /\ pc' \in {"handler", "hijacked"} \/ (NoRecoverHandlers /\ pc' = "crashed")]_vars

\* C9: when the handler returns without Respond or Hijack, finish commits one
\* response with status 200 OK and no body: on a working connection exactly a
\* status line "200 OK", a header block and, for the chunked encoder, the
\* terminating chunk are written before the loop continues or closes.
C9_DefaultResponse ==
    [][(pc = "handler" /\ ~t.respondCalled /\ ~t.hijacked /\ ret'.op = "return")
         => /\ t'.respondCalled
            /\ t'.status = StatusOK
            /\ HasPrefix(prelude', statusLine(t.req.ProtocolVersion, StatusOK))
            /\ Contains(prelude', <<"2", "0", "0", " ", "O", "K">>)
            /\ HasSuffix(prelude', CRLF \o CRLF)
            /\ pc' \in {"loop", "closed"}
            /\ ~wbroken =>
                 out' = out \o prelude' \o (IF t'.chunkedResponse THEN lastChunk ELSE <<>>)]_vars

\* The handler returned at once and the default response is on the wire.
C9_Witness ==
    /\ ret.op = "return"
    /\ calls = 0
    /\ txn = 1
    /\ pc = "loop"
    /\ t.status = StatusOK
    /\ out = prelude \o lastChunk
    /\ ~wbroken

Occurrences(q, pat) == Cardinality({i \in 1..Len(q) : MatchAt(q, pat, i)})

\* C10: no Transfer-Encoding value supplied by the handler is in the header
\* block written to the wire; a Transfer-Encoding header is there only when
\* the server chose the chunked encoder, and then it is exactly one header
\* with the value "chunked".
C10_TransferEncodingOnlyFromServer ==
    prelude /= <<>>
        => /\ ~Contains(prelude, sGzip)
           /\ Contains(prelude, HeaderTransferEncoding \o <<":">>) <=> t.chunkedResponse
           /\ t.chunkedResponse
                => /\ Contains(prelude, CRLF \o Hdr(HeaderTransferEncoding, sChunked))
                   /\ Occurrences(prelude, HeaderTransferEncoding \o <<":">>) = 1

\* ---- the encoder Respond selects
\* The bytes of out that transaction k wrote; the tags never decrease along
\* out, so they are the bytes after those of the earlier transactions.
TxBytes(k) ==
    LET before == Cardinality({i \in DOMAIN out : outTx[i] < k})
        mine == Cardinality({i \in DOMAIN out : outTx[i] = k})
    IN  SubSeq(out, before + 1, before + mine)

\* C11: for an HTTP/1.1 request whose method is not HEAD, a Respond with a
\* status other than 304 and no Content-Length from the handler selects the
\* chunked encoder and commits Transfer-Encoding: chunked, whatever the
\* request's Connection header says and whether or not the body was read.
C11_ChunkedForHttp11 ==
    (/\ pc = "handler"
     /\ t.respondCalled
     /\ t.req.ProtocolVersion >= ProtocolVersion(1, 1)
     /\ t.req.Method /= sHEAD
     /\ t.status /= StatusNotModified
     /\ Get(given, HeaderContentLength) = <<>>)
        => /\ t.chunkedResponse
           /\ sinks[t.responseBody].kind = "chunked"
           /\ Contains(prelude, CRLF \o Hdr(HeaderTransferEncoding, sChunked))

\* C12: for a HEAD request the bytes on the wire for the response are exactly
\* the status line and the header block, whatever the handler writes to the
\* sink: no body byte, no chunk framing, no Transfer-Encoding header, and a
\* Content-Length the handler supplied is in the header block.
C12_HeadResponseIsHeaderOnly ==
    (t.req /= NoReq /\ t.req.Method = sHEAD /\ t.respondCalled)
        => /\ TxBytes(txn) \in {<<>>, prelude}
           /\ ~wbroken => TxBytes(txn) = prelude
           /\ HasPrefix(prelude, statusLine(t.req.ProtocolVersion, t.status))
           /\ HasSuffix(prelude, CRLF \o CRLF)
           /\ Occurrences(prelude, CRLF \o CRLF) = 1
           /\ ~Contains(prelude, HeaderTransferEncoding \o <<":">>)
           /\ Get(given, HeaderContentLength) /= <<>>
                => Contains(prelude,
                            CRLF \o Hdr(HeaderContentLength, Get(given, HeaderContentLength)))

\* C13: the committed header block carries Connection: close exactly when
\* close-after-response is set at commit, for any header map of the handler;
\* a response that carries it is followed by the server closing the
\* connection, and one that does not is followed by the next request unless
\* finish met a write or length error.
C13_ConnectionCloseIffClosing ==
    /\ (pc = "handler" /\ t.respondCalled)
          => (Contains(prelude, CRLF \o ConnectionClose) <=> t.closeAfterResponse)
    /\ (ret.op = "return" /\ pc \in {"loop", "closed"})
          => /\ Contains(prelude, CRLF \o ConnectionClose) => pc = "closed"
             /\ ~Contains(prelude, CRLF \o ConnectionClose)
                  => (pc = "loop" \/ t.responseErr /= "ErrInvalidState")


\* ---- the identity encoder's length check
\* The handler returns with an identity encoder that has a declared length.
IdentityWithLength ==
    /\ pc = "handler" /\ ret'.op = "return"
    /\ t.respondCalled /\ ~t.hijacked
    /\ t.responseBody \in DOMAIN sinks
    /\ sinks[t.responseBody].kind = "identity"
    /\ sinks[t.responseBody].contentLength >= 0

\* C16: for an identity encoder with declared Content-Length C, finish reports
\* an error when more than C body bytes were written (long write) and when
\* fewer were written (short write); either error sets close-after-response
\* and the connection is closed after the response; finish reports no error
\* exactly when C bytes were written and every write to the connection
\* succeeded.
C16_IdentityLengthChecked ==
    [][IdentityWithLength =>
         LET w == sinks[t.responseBody]
             noError == t'.responseErr = "ErrInvalidState"
             n == Len(prelude) + w.written
             allOnWire == /\ Len(out') - Len(out) = Len(w.buf)
                          /\ Len(out') >= n
                          /\ MatchAt(out', prelude, Len(out') - n + 1)
         IN  /\ w.written > w.contentLength => t'.responseErr = "long write"
             /\ (w.written < w.contentLength /\ w.err = "nil" /\ ~wbroken)
                  => t'.responseErr = "short write"
             /\ w.written /= w.contentLength => ~noError
             /\ ~noError => t'.closeAfterResponse /\ pc' = "closed" /\ closed' = closed + 1
             /\ noError <=> (w.written = w.contentLength /\ allOnWire)]_vars

C16_Witness ==
    /\ ret.op = "return" /\ pc = "closed" /\ closed = 1
    /\ t.responseErr = "long write"
    /\ Get(given, HeaderContentLength) /= <<>>

\* ---- 100 Continue
\* The interim response stands in b at position i.
ContinueAt(b, i) ==
    /\ i + Len(Continue100) - 1 <= Len(b)
    /\ b[i] = "H" /\ b[i + 9] = "1"
    /\ MatchAt(b, Continue100, i)

\* What the current transaction has on the wire carries the interim response
\* at most once, in front, and only for a request that expects it.
ContinueOnlyExpected ==
    \A b \in {TxBytes(txn)} :
        /\ \A i \in 2..Len(b) : ~ContinueAt(b, i)
        /\ (ContinueAt(b, 1) /\ t.req /= NoReq)
              => ToLower(Get(t.req.Header, HeaderExpect)) = s100Continue

\* A step that puts the interim response on the wire is the handler's first
\* body read: nothing of the body has been taken from the stream, Respond and
\* Hijack have not been called, and no byte of a final response is committed.
ContinueAtFirstRead ==
    (\E i \in (Len(out) + 1)..Len(out') : ContinueAt(out', i))
        => /\ pc = "handler" /\ ret'.op = "Read"
           /\ t.write100Continue /\ ~t'.write100Continue
           /\ ToLower(Get(t.req.Header, HeaderExpect)) = s100Continue
           /\ ~t.respondCalled /\ ~t.hijacked
           /\ inp = afterHead /\ got = <<>>
           /\ prelude = <<>> /\ TxBytes(txn) = <<>>
           /\ out' = out \o Continue100

\* C17: "HTTP/1.1 100 Continue" is written at most once per transaction, only
\* for a request with Expect: 100-continue (compared without regard to case),
\* only at the handler's first body read, before any body byte is read and
\* before any byte of the final response; a handler that responds or hijacks
\* without reading never causes it.
C17_ContinueOnceAtFirstRead ==
    [][out' /= out => (ContinueAtFirstRead /\ ContinueOnlyExpected')]_vars

C17_Witness ==
    /\ ret.op = "return"
    /\ t.req /= NoReq
    /\ Get(t.req.Header, HeaderExpect) /= s100Continue
    /\ HasPrefix(TxBytes(txn), Continue100 \o prelude)
    /\ prelude /= <<>>

\* ---- panics in the handler
\* C18: on a server that recovers handler panics (NoRecoverHandlers false), a
\* panic of the handler at any point, before Respond, after Respond or after
\* Hijack, is recovered: it does not leave the worker, the stream has been
\* closed, and the connection is not used for another transaction.
C18_HandlerPanicRecovered ==
    (~NoRecoverHandlers /\ ret.op = "panic")
        => /\ pc /= "crashed"
           /\ pc = "closed"
           /\ closed = 1

\* ---- leaving the connection loop
\* The worker has left the loop without a hijack.
LoopLeft == pc \in {"closed", "crashed"}

\* C20 as stated: on every exit from the connection loop other than a hijack
\* (end of stream or an error in prepare, close-after-response after finish,
\* a panic of the handler) the server has closed the stream exactly once.
C20_EveryExitCloses == LoopLeft => closed = 1

\* C20, amended: the same for every exit except a panic that the server is
\* configured not to recover (NoRecoverHandlers), which leaves the worker
\* with the stream open; the stream is not closed while the loop runs, never
\* closed twice, and nothing is written to it once it is closed.
C20_RecoveredExitCloses ==
    [][/\ closed >= 1 => out' = out
       /\ closed' <= 1
       /\ pc' \in {"loop", "handler", "blocked"} => closed' = 0
       /\ (LoopLeft' /\ ~(NoRecoverHandlers /\ pc' = "crashed")) => closed' = 1]_vars

C20_Witness ==
    /\ pc = "closed" /\ closed = 1
    /\ ret.op = "panic"
    /\ t.respondCalled /\ out /= <<>>

\* ---- the accept loop
\* C19: an Accept error that reports itself temporary starts no worker and
\* does not end Serve, so connections accepted later still get a worker; any
\* other Accept error is what Serve returns, and no Accept call follows it;
\* every connection accepted without error is handed to a worker of its own.
C19_AcceptLoop ==
    LET n == Len(accepted) IN
    /\ \A i \in 1..n :
         /\ (accepted[i] = "nil") <=> (\E j \in DOMAIN served : served[j] = i)
         /\ (accepted[i] /= "nil" /\ Temporary(accepted[i]))
              => (i < n \/ serveErr = "none")
         /\ (accepted[i] /= "nil" /\ ~Temporary(accepted[i]))
              => (i = n /\ serveErr = accepted[i])
    /\ \A j, k \in DOMAIN served : j < k => served[j] < served[k]
    /\ serveErr /= "none" => (n >= 1 /\ serveErr = accepted[n] /\ ~Temporary(serveErr))

C19_Witness ==
    /\ Len(accepted) = 3
    /\ accepted[1] = "EINTR" /\ accepted[2] = "nil" /\ accepted[3] = "EOF"
    /\ served = <<2>>
    /\ serveErr = "EOF"

\* ---- the chunked encoder's wire format
\* b read as chunks with a length line of nd digits: whether every chunk is
\* well formed, the data of the chunks in order (after acc), and whether b
\* ends with the last chunk.
RECURSIVE WireChunks(_, _, _)
WireChunks(b, nd, acc) ==
    IF b = <<>> THEN [ok |-> TRUE, data |-> acc, terminated |-> FALSE]
    ELSE IF b = lastChunk THEN [ok |-> TRUE, data |-> acc, terminated |-> TRUE]
    ELSE IF Len(b) < nd + 2 THEN [ok |-> FALSE, data |-> acc, terminated |-> FALSE]
    ELSE LET digits == SubSeq(b, 1, nd)
             n == HexValue(digits)
         IN  IF \/ \E i \in 1..nd : Pos(HexChars, digits[i]) = 0
                \/ n < 1
                \/ Len(b) < nd + n + 4
                \/ SubSeq(b, nd + 1, nd + 2) /= CRLF
                \/ SubSeq(b, nd + n + 3, nd + n + 4) /= CRLF
             THEN [ok |-> FALSE, data |-> acc, terminated |-> FALSE]
             ELSE WireChunks(Tail1(b, nd + n + 5), nd, acc \o SubSeq(b, nd + 3, nd + n + 2))

\* What the encoder has put on the wire after the header, read as chunks.
EncoderChunks ==
    WireChunks(Tail1(out, Len(prelude) + 1), sinks[1].ndigit, <<>>)

\* C14: for any Write and Flush calls on the chunked encoder followed by
\* finish, without I/O error, every chunk on the wire is a length line of
\* exactly ndigit zero-padded lowercase hex digits, CRLF, that many data
\* bytes (at least one) and CRLF; and once finish has been called the last
\* bytes written are exactly 0 CR LF CR LF.
C14_ChunksWellFormed ==
    sinks[1].kind = "chunked"
        => /\ EncoderChunks.ok
           /\ (ret.op = "finish" \/ pc = "finished") <=> EncoderChunks.terminated

\* C15: for any header length and any Write and Flush calls followed by
\* finish, without I/O error, every Write returns len(p); the wire holds the
\* header first, then chunks whose data, concatenated, are the written
\* buffers in call order, then the terminator; and the count finish returns
\* is the number of bytes written to the stream.
C15_ChunkedCarriesAllData ==
    sinks[1].kind = "chunked"
        => /\ (ret.op = "Write" /\ pc /= "finished")
                => (ret.err = "nil" /\ ret.n = Len(ret.data))
           /\ ret.op = "finish"
                => /\ ret.err = "nil"
                   /\ HasPrefix(out, prelude)
                   /\ EncoderChunks.ok /\ EncoderChunks.terminated
                   /\ EncoderChunks.data = sent
                   /\ ret.n = Len(out)

\* ---- persistence as prepare decides it
\* The header key of m lists the token tok, compared without regard to case.
HasToken(m, key, tok) ==
    \E l \in {GetList(m, key)} : \E i \in DOMAIN l : ToLower(l[i]) = tok

\* C21: after prepare, close-after-response follows from the request alone:
\* for HTTP/1.1 it is set exactly when the Connection header contains the
\* token close; for HTTP/1.0 with a known content length exactly when the
\* Connection header does not contain the token keep-alive; otherwise it is
\* set.
C21_CloseDecidedByRequest ==
    [][(pc = "loop" /\ pc' = "handler")
         => \E req \in {t'.req} :
              t'.closeAfterResponse
                <=> IF req.ProtocolVersion >= ProtocolVersion(1, 1)
                    THEN HasToken(req.Header, HeaderConnection, sClose)
                    ELSE IF req.ProtocolVersion = ProtocolVersion(1, 0) /\ req.ContentLength >= 0
                    THEN ~HasToken(req.Header, HeaderConnection, sKeepAlive)
                    ELSE TRUE]_vars

\* ---- write errors
\* The error of a failed write to the connection.
WriteFailed == "EPIPE"

\* An encoder that has met a write error refuses Write and Flush with that
\* error, writes nothing, and reports the error from finish.
PoisonedRefuses ==
    \A i \in DOMAIN sinks :
        sinks[i].err = WriteFailed
          => /\ \A p \in WriteData : \A r \in {bodyWrite(sinks[i], out, wbroken, p)} :
                  r.err = WriteFailed /\ r.n = 0 /\ r.out = out /\ ~r.panic
             /\ \A r \in {bodyFlush(sinks[i], out, wbroken)} :
                  r.err = WriteFailed /\ r.out = out /\ ~r.panic
             /\ \A r \in {bodyFinish(sinks[i], out, wbroken)} :
                  r.err = WriteFailed /\ r.out = out /\ ~r.panic

\* A call that returns the write error leaves its encoder poisoned.
FailurePoisons ==
    (ret'.err = WriteFailed /\ ret'.op \in {"Write", "Flush"})
        => \E i \in DOMAIN sinks : sinks'[i].err = WriteFailed
                                   /\ (sinks'[i] /= sinks[i] \/ sinks[i].err = WriteFailed)

\* The handler returns and finish runs on a connection whose writes fail or
\* on a poisoned encoder: the error is the transaction's, and the loop ends.
FailureCloses ==
    (pc = "handler" /\ ret'.op = "return" /\ ~t.hijacked)
        => /\ (t.respondCalled /\ sinks[t.responseBody].err = WriteFailed)
                => t'.responseErr = WriteFailed
           /\ (wbroken /\ ~t.respondCalled) => t'.responseErr = WriteFailed
           /\ (wbroken /\ t.respondCalled /\ sinks[t.responseBody].err = "nil"
                 /\ (sinks[t.responseBody].kind = "chunked" \/ sinks[t.responseBody].buf /= <<>>))
                => t'.responseErr = WriteFailed
           /\ t'.responseErr = WriteFailed
                => (t'.closeAfterResponse /\ pc' = "closed" /\ closed' = closed + 1
                    /\ out' = out)

\* C22: when a write to the stream fails while the header block, the body or
\* the terminator of a response is emitted, the encoder is poisoned (every
\* later Write and Flush returns an error and writes nothing), finish reports
\* the error, and the transaction sets close-after-response, so the loop
\* closes the connection and prepares no other request.
C22_WriteErrorPoisonsAndCloses ==
    [][FailurePoisons /\ FailureCloses /\ PoisonedRefuses']_vars

C22_Witness ==
    /\ ret.op = "return" /\ pc = "closed" /\ closed = 1
    /\ wbroken /\ t.responseErr = WriteFailed
    /\ \E i \in DOMAIN sinks : sinks[i].kind = "chunked" /\ sinks[i].err = WriteFailed
    /\ out /= <<>>

\* ---- HTTP/1.0 responses without a length
\* A committed response to a pre-1.1 request, status not 304, for which the
\* handler gave no Content-Length.
Http10NoLength ==
    /\ pc = "handler"
    /\ t.respondCalled
    /\ t.req.ProtocolVersion < ProtocolVersion(1, 1)
    /\ t.status /= StatusNotModified
    /\ Get(given, HeaderContentLength) = <<>>

\* Respond has set close-after-response and committed Connection: close.
ForcesClose ==
    /\ t.closeAfterResponse
    /\ Contains(prelude, CRLF \o Hdr(HeaderConnection, sClose))

\* The claim as stated: the encoder is the unbounded identity encoder for every
\* such request.
C27_Http10AlwaysIdentity ==
    Http10NoLength
        => /\ ForcesClose
           /\ sinks[t.responseBody].kind = "identity"
           /\ sinks[t.responseBody].contentLength = 0 - 1

\* C27: for an HTTP/1.0 request, when the handler supplies no Content-Length
\* and the status is not 304, Respond sets close-after-response and adds
\* Connection: close, even if the request asked for keep-alive; the encoder
\* is the identity encoder with no length bound, or the null encoder when the
\* method is HEAD; when the handler returns, the server closes the
\* connection, which delimits the body.
C27_Http10ClosesUnbounded ==
    [][Http10NoLength
         => /\ ForcesClose
            /\ IF t.req.Method = sHEAD
               THEN sinks[t.responseBody].kind = "null"
               ELSE /\ sinks[t.responseBody].kind = "identity"
                    /\ sinks[t.responseBody].contentLength = 0 - 1
            /\ ret'.op = "return" => (pc' = "closed" /\ closed' = closed + 1)]_vars

C27_Witness ==
    /\ pc = "closed" /\ ret.op = "return" /\ closed = 1
    /\ t.req /= NoReq /\ t.req.ProtocolVersion = ProtocolVersion(1, 0)
    /\ HasToken(t.req.Header, HeaderConnection, sKeepAlive)
    /\ t.status = StatusOK /\ Get(given, HeaderContentLength) = <<>>
    /\ \E i \in DOMAIN sinks : sinks[i].kind = "identity" /\ sinks[i].written > 0
    /\ ~wbroken

\* ---- 304 Not Modified
\* The bytes of the current transaction that belong to its response: all of
\* them but an interim 100 Continue.
ResponseBytes(b) ==
    IF HasPrefix(b, Continue100) THEN SubSeq(b, Len(Continue100) + 1, Len(b)) ELSE b

\* C28: for a response with status 304 the header block on the wire has
\* neither Content-Type nor Content-Length nor Transfer-Encoding, and the
\* bytes on the wire for the response are the header block alone, whatever
\* headers the handler supplied and whatever it writes to the sink.
C28_NotModifiedIsHeaderOnly ==
    (t.req /= NoReq /\ t.respondCalled /\ t.status = StatusNotModified)
        => /\ ~Contains(prelude, HeaderContentType \o <<":">>)
           /\ ~Contains(prelude, HeaderContentLength \o <<":">>)
           /\ ~Contains(prelude, HeaderTransferEncoding \o <<":">>)
           /\ \A b \in {ResponseBytes(TxBytes(txn))} :
                Len(b) <= Len(prelude) /\ b = SubSeq(prelude, 1, Len(b))

\* ---- empty flushes of the chunked encoder
\* No body byte has been written since the last chunk was emitted.
ChunkEmpty(w) == w.kind = "chunked" /\ w.err = "nil" /\ w.s + w.ndigit + 2 = w.n

\* The bytes of the encoder's buffer that come before the open chunk.
Pending(w) == SubSeq(w.buf, 1, w.s)

\* The length line of a chunk of no data.
ZeroLengthLine(w) == hexPad(0, w.ndigit) \o CRLF

\* What the encoder has put on the wire after the header.
WireBody == Tail1(out, Len(prelude) + 1)

\* C30: on the chunked encoder, a Flush or finish issued when no body byte
\* has been written since the last chunk was emitted writes no zero-length
\* chunk: Flush adds only what was pending before the chunk, finish adds
\* that and the terminator; at no time does the wire hold a chunk of length
\* zero, and the terminator is on the wire only once finish has been called.
C30_NoEmptyChunk ==
    [][/\ (ChunkEmpty(sinks[1]) /\ ret'.op = "Flush")
            => (out' = out \o Pending(sinks[1]) /\ ret'.err = "nil" /\ ChunkEmpty(sinks'[1]))
       /\ (ChunkEmpty(sinks[1]) /\ ret'.op = "finish")
            => (out' = out \o Pending(sinks[1]) \o lastChunk /\ ret'.err = "nil")
       /\ sinks[1].kind = "chunked"
            => \A b \in {WireBody'} :
                 /\ ~Contains(b, ZeroLengthLine(sinks[1]))
                 /\ Occurrences(b, lastChunk) = IF pc' = "finished" THEN 1 ELSE 0]_vars

C30_Witness ==
    /\ sinks[1].kind = "chunked" /\ pc = "finished" /\ ret.op = "finish"
    /\ calls = 3 /\ sent /= <<>>
    /\ \E h \in {SubSeq(out, 1, Len(prelude) + 2)} :
         out = h \o CRLF \o sent \o CRLF \o lastChunk

\* ---- the encoders after finish
\* The first finish leaves its error in the encoder, or the invalid state when
\* it succeeded.
FinishPoisons ==
    (pc = "encoder" /\ ret'.op = "finish" /\ pc' = "finished")
        => sinks'[1].err = IF ret'.err = "nil" THEN "ErrInvalidState" ELSE ret'.err

\* After finish no call changes the stream or the encoder, and a Write takes
\* no byte and returns the encoder's error.
FinishedRefuses ==
    pc = "finished"
        => /\ out' = out
           /\ sinks' = sinks
           /\ pc' = "finished"
           /\ sinks[1].err /= "nil"
           /\ ret'.op = "Write" => (ret'.n = 0 /\ ret'.err = sinks[1].err)

\* The claim as stated: a repeated finish reports what the call before it
\* reported.
C29_RepeatedFinishSameOutcome ==
    [][/\ FinishPoisons
       /\ FinishedRefuses
       /\ (pc = "finished" /\ ret.op \in {"finish", "finish again"}
             /\ ret'.op = "finish again")
            => ret'.err = ret.err]_vars

\* C29: for each of the three encoders, after finish has been called every
\* further Write returns an error (the invalid state when finish succeeded,
\* the error of finish otherwise) and writes no byte, and a repeated finish
\* writes no byte, in particular no second terminator, and reports an error:
\* the error of the first call when that call failed, and the invalid state
\* when it succeeded.
C29_FinishIsFinal ==
    [][/\ FinishPoisons
       /\ FinishedRefuses
       /\ (pc = "finished" /\ ret'.op = "finish again") => ret'.err = sinks[1].err]_vars

C29_Witness ==
    /\ pc = "finished" /\ ret.op = "finish again" /\ ret.err = "ErrInvalidState"
    /\ calls = 3 /\ sent /= <<>>
    /\ sinks[1].kind = "chunked"
    /\ out = prelude \o lastChunk

\* ---- the header block
\* The segments of b between its CR LF pairs, the one after the last pair
\* included.
RECURSIVE SplitCRLF(_, _, _)
SplitCRLF(b, cur, acc) ==
    IF b = <<>> THEN Append(acc, cur)
    ELSE IF HasPrefix(b, CRLF) THEN SplitCRLF(Tail1(b, 3), <<>>, Append(acc, cur))
    ELSE SplitCRLF(Tail(b), Append(cur, b[1]), acc)

\* The line of one header value: the name, a colon, a space, and the value
\* with a space in the place of every CR and LF.
HeaderLine(key, v) ==
    key \o <<":", " ">> \o [i \in DOMAIN v |-> IF v[i] = "\r" \/ v[i] = "\n" THEN " " ELSE v[i]]

\* The values of the map, as pairs of key and index.
ValueSlots(m) == UNION {{<<k, i>> : i \in DOMAIN m[k]} : k \in DOMAIN m}

\* C24: in the header block WriteHttpHeader writes, every header value is one
\* line, name colon space value CR LF, in which each CR and LF of the value is
\* a space; the block ends with one empty line; and no CR or LF is on the
\* wire but those line ends, so no value starts a line of its own.
C24_HeaderValuesStayOnOneLine ==
    pc = "written"
      => \A lines \in {SplitCRLF(out, <<>>, <<>>)} :
           /\ Len(lines) = Cardinality(ValueSlots(given)) + 2
           /\ lines[Len(lines)] = <<>> /\ lines[Len(lines) - 1] = <<>>
           /\ \A i \in DOMAIN lines : \A j \in DOMAIN lines[i] : lines[i][j] \notin {"\r", "\n"}
           /\ \A s \in ValueSlots(given) :
                \A l \in {HeaderLine(s[1], given[s[1]][s[2]])} :
                   Cardinality({i \in 1..(Len(lines) - 2) : lines[i] = l})
                     = Cardinality({x \in ValueSlots(given) :
                                       HeaderLine(x[1], given[x[1]][x[2]]) = l})

C24_Witness ==
    /\ pc = "written"
    /\ HeaderLocation \in DOMAIN given
    /\ given[HeaderLocation] = <<<<"\r", "\n", "X", ":", " ", "1">>>>
    /\ given[HeaderContentType] = <<<<"x", "\r">>, <<"\n">>>>
    /\ Contains(out, Hdr(HeaderLocation, <<" ", " ", "X", ":", " ", "1">>))
    /\ Contains(out, Hdr(HeaderContentType, <<"x", " ">>) \o Hdr(HeaderContentType, <<" ">>))

(***************************************************************************)
(* Properties of the websocket upgrade and of the text frames.             *)
(***************************************************************************)
\* The number of spaces of a key and, digit by digit, the remainder its
\* decimal number leaves when divided by d.
KeySpaces(s) == Cardinality({i \in DOMAIN s : s[i] = " "})
RECURSIVE KeyRemainder(_, _, _)
KeyRemainder(s, d, r) ==
    IF s = <<>> THEN r
    ELSE IF IsDigit(s[1])
    THEN KeyRemainder(Tail(s), d, ((r * 10) + (Pos(DigitChars, s[1]) - 1)) % d)
    ELSE KeyRemainder(Tail(s), d, r)
KeyMissingOrInvalid(s) ==
    s = <<>> \/ KeySpaces(s) = 0 \/ KeyRemainder(s, KeySpaces(s), 0) /= 0

\* A request Upgrade is to reject.
Rejectable(req) ==
    \/ req.Method /= sGET
    \/ Get(req.Header, HeaderOrigin) = <<>>
    \/ ToLower(Get(req.Header, HeaderConnection)) /= ToLower(vUpgrade)
    \/ ToLower(Get(req.Header, HeaderUpgrade)) /= ToLower(vWebSocket)
    \/ KeyMissingOrInvalid(Get(req.Header, HeaderSecWebSocketKey1))
    \/ KeyMissingOrInvalid(Get(req.Header, HeaderSecWebSocketKey2))

UpgradeCalled == pc = "handler" /\ ret.op = "none"
RejectedByUpgrade == ret.op = "Upgrade" /\ ret.n >= StatusBadRequest

\* C25: when the method is not GET, Origin is absent, Connection is not
\* upgrade or Upgrade is not websocket (whatever the case of the letters), or
\* one of the two key headers is missing or invalid, Upgrade returns an error
\* without hijacking: a status of 400 or more is committed by Respond, no
\* byte of the stream is taken, and when the handler returns the response
\* with that status line is on the wire and the connection loop still owns
\* the stream.
C25_UpgradeRejectsWithoutHijack ==
    [][/\ (UpgradeCalled /\ Rejectable(t.req))
          => /\ ret'.op = "Upgrade" /\ ret'.err /= "nil"
             /\ ~t'.hijacked /\ t'.respondCalled
             /\ t'.status >= StatusBadRequest
             /\ HasPrefix(prelude', statusLine(t.req.ProtocolVersion, t'.status))
             /\ inp' = inp /\ ws' = NoConn /\ pc' = "handler"
       /\ (RejectedByUpgrade /\ pc = "handler")
          => /\ pc' \in {"loop", "closed"}
             /\ MatchAt(out', prelude, Len(out) + 1)
       /\ (UpgradeCalled /\ ~Rejectable(t.req)) => t'.hijacked]_vars

C25_Witness ==
    /\ ret.op = "return" /\ pc = "loop"
    /\ t.respondCalled /\ t.status = StatusBadRequest /\ ~t.hijacked
    /\ ws = NoConn
    /\ Len(sinks) = 1

\* The bytes of a stream before its first byte 0xff, and the bytes after it.
BeforeFF(stream) == SubSeq(stream, 1, IndexByte(stream, ByteFF) - 1)
AfterFF(stream) == Tail1(stream, IndexByte(stream, ByteFF) + 1)
\* The unread stream holds the rest of a frame: the whole frame when no
\* chunk of it has been returned yet.
FrameAhead ==
    /\ pc = "ws"
    /\ IndexByte(inp, ByteFF) > 0
    /\ ws.hasMore \/ inp[1] = Zero
\* The part of the frame's payload ReadMessage has not returned yet.
PayloadAhead == IF ws.hasMore THEN BeforeFF(inp) ELSE BeforeFF(Tail(inp))

\* C26: on a hijacked stream of frames 0x00 payload 0xFF, for every read
\* buffer size, the chunks ReadMessage returns up to the first one with
\* hasMore = false add up to the payload of the next frame and leave the
\* stream just after that frame; a payload no longer than the read buffer
\* comes back from a single call; and WriteMessage of the message writes
\* exactly 0x00, the message, 0xFF.
C26_FramesRoundTrip ==
    [][/\ FrameAhead
          => /\ ret'.err = "nil"
             /\ pc' = "ws reply" => (got' = got \o PayloadAhead /\ inp' = AfterFF(inp))
             /\ pc' = "ws" => (ws'.hasMore /\ got' \o BeforeFF(inp') = got \o PayloadAhead
                               /\ AfterFF(inp') = AfterFF(inp))
             /\ (~ws.hasMore /\ Len(PayloadAhead) <= ws.size)
                => (pc' = "ws reply" /\ ret'.data = PayloadAhead)
       /\ pc = "ws reply" => out' = out \o Frame(got)]_vars

(***************************************************************************)
(* Properties of two workers.                                              *)
(***************************************************************************)
\* What is observed of a connection: where its worker is, the bytes taken
\* from and written to its stream, its close calls, its transaction and the
\* handler's last call.
View(w) ==
    [pc |-> w.pc, inp |-> w.inp \o w.pending, out |-> w.out, closed |-> w.closed,
     t |-> w.t, op |-> w.ret.op]

\* Everything observed of the connection from w on when it is served alone.
RECURSIVE aloneRun(_)
aloneRun(w) ==
    LET next == connStep(w) IN
    IF next = w THEN {View(w)} ELSE {View(w)} \cup aloneRun(next)

\* The two goroutines reach no object in common: each has its own
\* connection, and a transaction one of them holds is not the other's.
NothingShared ==
    \A i, j \in {1, 2} :
        i /= j => /\ other[i].conn /= other[j].conn
                  /\ other[i].t /= NilT => other[i].t /= other[j].t

\* C23: with two connections served by two workers, the workers hold no
\* object in common, and under every interleaving of their steps each
\* connection is at every moment in a state it passes through when it is
\* served alone: the same bytes taken from and written to its stream, the
\* same transaction flags, the same close decision.
C23_WorkersDoNotInterfere ==
    conns.streams /= <<>>
    => /\ NothingShared
       /\ \A i \in {1, 2} : View(Reached(i)) \in aloneRun(connStart(conns.streams[i], conns.ends[i]))

\* The first goroutine has served one request and is inside prepare for
\* the next one: its transaction is allocated and still empty, the request
\* line is read and the rest of the header block has not arrived.  The
\* second goroutine has meanwhile allocated its own transaction, prepared
\* it and responded.
C23_Witness ==
    /\ conns.streams /= <<>>
    /\ conns.streams[1] /= conns.streams[2]
    /\ other[1].pc = "header" /\ other[1].rl /= NoLine
    /\ conns.conn[1].out /= <<>> /\ conns.conn[1].pending /= <<>>
    /\ other[1].t /= NilT /\ conns.tx[other[1].t].t.req = NoReq
    /\ other[2].pc = "handler" /\ other[2].t > other[1].t
    /\ conns.tx[other[2].t].t.respondCalled

(***************************************************************************)
(* Properties of webSocketKey.                                             *)
(***************************************************************************)
KeyValue == Get(given, HeaderSecWebSocketKey1)
KeyDigits(s) == SelectSeq(s, IsDigit)
\* The decimal number the digits of a key form, and the sum of the digits:
\* for keys of at most nine digits.
RECURSIVE KeyNumber(_, _)
KeyNumber(ds, acc) ==
    IF ds = <<>> THEN acc ELSE KeyNumber(Tail(ds), (acc * 10) + (Pos(DigitChars, ds[1]) - 1))
RECURSIVE KeyDigitSum(_)
KeyDigitSum(ds) ==
    IF ds = <<>> THEN 0 ELSE (Pos(DigitChars, ds[1]) - 1) + KeyDigitSum(Tail(ds))
BigEndian4(q) == <<q \div 16777216, (q \div 65536) % 256, (q \div 256) % 256, q % 256>>
\* What webSocketKey is to return for the number N and the key value s.
KeyFor(N, s) ==
    IF s = <<>> \/ KeySpaces(s) = 0 \/ N % KeySpaces(s) /= 0 THEN <<>>
    ELSE BigEndian4(N \div KeySpaces(s))
KeyApplied == pc = "keyed" /\ Len(KeyDigits(KeyValue)) <= 9

\* C36 as stated: N is the sum of the decimal digits of the value, D the
\* number of spaces; the key is rejected when D = 0 or N mod D is not 0, and
\* is N/D in four big-endian bytes otherwise.
C36_KeyFromDigitSum ==
    KeyApplied
    => /\ ret.data = KeyFor(KeyDigitSum(KeyDigits(KeyValue)), KeyValue)
       /\ ret.err = "nil" <=> ret.data /= <<>>

\* C36, amended: N is the number whose decimal representation is the digits
\* of the value in order, kept in 32 bits (modulo 2^32); D is the number of
\* spaces; the key is rejected when D = 0 or N mod D is not 0, and is N/D in
\* four big-endian bytes otherwise.
C36_KeyFromDigitString ==
    /\ KeyApplied
       => /\ ret.data = KeyFor(KeyNumber(KeyDigits(KeyValue), 0), KeyValue)
          /\ ret.err = "nil" <=> ret.data /= <<>>
    /\ (pc = "keyed" /\ KeyValue = testKey1) => ret.data = <<84, 228, 70, 82>>
    /\ (pc = "keyed" /\ KeyValue = testKey2) => ret.data = <<30, 7, 252, 245>>
    /\ (pc = "keyed" /\ KeyValue = wrapKey) => ret.data = <<0, 0, 0, 1>>

C36_Witness ==
    /\ pc = "keyed"
    /\ KeyValue = <<"9", "1", " ", "x">>
    /\ ret.data = <<0, 0, 0, 91>>

(***************************************************************************)
(* Properties of the width of the chunk length.                            *)
(***************************************************************************)
RECURSIVE Pow16(_)
Pow16(k) == IF k = 0 THEN 1 ELSE 16 * Pow16(k - 1)
\* ceil(log16 n) and the number of hex digits of n, for 0 < n <= 16^4.
CeilLog16(n) == CHOOSE k \in 0..4 : Pow16(k) >= n /\ \A j \in 0..(k - 1) : Pow16(j) < n
HexDigits(n) == CHOOSE k \in 1..5 : Pow16(k) > n /\ Pow16(k - 1) <= n
\* The most data bytes one chunk can hold in the buffer of the encoder w:
\* the buffer without the length line and the CRLF after the data.
LargestChunk(w) == w.size - w.ndigit - 4
Made == pc = "made"

\* C31 as stated: the width of the length prefix is ceil(log16 bufferSize),
\* and it is wide enough for the largest chunk the buffer can hold.
C31_WidthIsCeilLog16 ==
    Made => /\ sinks[1].ndigit = CeilLog16(inp[1])
            /\ LargestChunk(sinks[1]) < Pow16(sinks[1].ndigit)

\* C31, amended: the width of the length prefix is the number of hex digits
\* of bufferSize, floor(log16 bufferSize) + 1: 2 for 32 and 4 for 4096.  It
\* is wide enough for the largest chunk the buffer can hold, and the first
\* chunk starts right after the length line.
C31_WidthIsHexDigits ==
    Made => /\ sinks[1].ndigit = HexDigits(inp[1])
            /\ sinks[1].size = inp[1]
            /\ LargestChunk(sinks[1]) < Pow16(sinks[1].ndigit)
            /\ sinks[1].n = sinks[1].s + sinks[1].ndigit + 2
            /\ inp[1] = chunkTestBufferSize => sinks[1].ndigit = 2
            /\ inp[1] = bufferSize => sinks[1].ndigit = 4

C31_Witness == Made /\ inp[1] = bufferSize /\ sinks[1].ndigit = 4 /\ ret.n = 4

(***************************************************************************)
(* Properties of the positions of the chunked encoder.                     *)
(***************************************************************************)
\* The open chunk of the encoder w holds data.
ChunkOpen(w) == w.s + w.ndigit + 2 < w.n

\* C40: for any header length and any Write, Flush and finish calls on the
\* chunked encoder, 0 <= s <= n, there is room in the buffer for the CRLF
\* after the data of a chunk that holds data, and no call reads or writes
\* outside the buffer: none ends in a run-time panic.
C40_PositionsInsideBuffer ==
    sinks[1].kind = "chunked"
    => /\ 0 <= sinks[1].s /\ sinks[1].s <= sinks[1].n
       /\ ChunkOpen(sinks[1]) => sinks[1].n + 2 <= sinks[1].size
       /\ pc /= "crashed"

(***************************************************************************)
(* Properties of ParseFormEncodedBytes.                                    *)
(***************************************************************************)
\* The last item of a form: what follows its last '&'.
LastAmp(p) == IF \E i \in DOMAIN p : p[i] = "&"
              THEN CHOOSE i \in DOMAIN p : p[i] = "&" /\ \A k \in (i + 1)..Len(p) : p[k] /= "&"
              ELSE 0
LastItem(p) == Tail1(p, LastAmp(p) + 1)
\* A name without escapes, decoded: '+' stands for a space.
PlainName(item) == [i \in DOMAIN item |-> IF item[i] = "+" THEN " " ELSE item[i]]
BareName(item) == item /= <<>> /\ \A i \in DOMAIN item : item[i] \notin {"=", "%"}
FormParsed == pc = "parsed" /\ ret.err = "nil"

\* C37: when the last item of the form has no '=', it is in the map as that
\* name with one empty value (a=b&c gives a -> [b], c -> [""]); and nothing
\* is stored under the empty name.
C37_TrailingNameKept ==
    FormParsed
    => /\ BareName(LastItem(inp))
          => /\ PlainName(LastItem(inp)) \in DOMAIN given
             /\ given[PlainName(LastItem(inp))] = <<<<>>>>
       /\ <<>> \notin DOMAIN given

(***************************************************************************)
(* Properties of ParseHttpHeader.                                          *)
(***************************************************************************)
\* The first line of a block, without its end-of-line bytes.
FirstLine(b) ==
    IF IndexByte(b, "\n") = 0 THEN b
    ELSE dropLast(SubSeq(b, 1, IndexByte(b, "\n") - 1), "\r")
\* The line is no header: it continues a header where there is none, or its
\* name is empty or not a token, or no colon follows its name.
NameEnd(l) == IF \E i \in DOMAIN l : ~IsTokenByte(l[i])
              THEN (CHOOSE i \in DOMAIN l : ~IsTokenByte(l[i]) /\ \A k \in 1..(i - 1) : IsTokenByte(l[k])) - 1
              ELSE Len(l)
MalformedFirstLine(l) ==
    /\ l /= <<>>
    /\ \/ IsSpaceByte(l[1])
       \/ NameEnd(l) = 0
       \/ trimWSLeft(Tail1(l, NameEnd(l) + 1)) = <<>>
       \/ trimWSLeft(Tail1(l, NameEnd(l) + 1))[1] /= ":"
BlockParsed == pc = "block parsed"

\* C34: ParseHttpHeader never panics, and for a block whose first line
\* continues a header that is not there, has no colon after its name (the
\* line may be a token and nothing else), or has an empty or non-token name,
\* it returns BadHeaderLine.
C34_MalformedLineIsAnError ==
    BlockParsed
    => /\ ret.err /= "panic"
       /\ MalformedFirstLine(FirstLine(inp)) => ret.err = "ErrBadHeaderLine"

(***************************************************************************)
(* Properties of the request body readers.                                 *)
(***************************************************************************)
\* A request with a body of unknown length: not GET or HEAD, not chunked, no
\* Content-Length.
UnboundedCase ==
    /\ t.req /= NoReq
    /\ t.req.Method \notin {sGET, sHEAD}
    /\ ~requestChunked(t.req)
    /\ t.req.ContentLength < 0

\* C35: for a request that is not GET or HEAD, not chunked and without
\* Content-Length, close-after-response is set by prepare, and the reads of
\* the body return the bytes that follow the header block, in order, with
\* EOF only once the stream has ended and all of them have been returned.
C35_UnboundedBodyReadToEnd ==
    (UnboundedCase /\ ~t.hijacked)
        => /\ t.closeAfterResponse
           /\ (ret.op = "Read" /\ ~t.respondCalled)
              => /\ got = SubSeq(afterHead, 1, Len(got))
                 /\ ret.err = "EOF" => got = afterHead


\* C39: for a request with Content-Length L > 0, the read that delivers the
\* L-th byte of the body takes nothing beyond the body from the stream and
\* does not wait for more: a read waits only while body bytes are missing,
\* and once the L bytes are delivered the stream stands right after the body
\* and request-consumed is true.
C39_LengthBodyTakesExactlyL ==
    (LengthCase /\ t.req.ContentLength > 0 /\ ret.op = "Read" /\ ~t.respondCalled /\ ~t.hijacked)
        => /\ pc = "blocked" => Len(afterHead) < t.req.ContentLength
           /\ (pc /= "blocked" /\ Len(got) = t.req.ContentLength)
              => /\ inp = Tail1(afterHead, t.req.ContentLength + 1)
                 /\ t.requestConsumed


\* The number of stream bytes the message body of the current request takes
\* up, as its framing declares it: the chunked encoding up to the end of the
\* trailer, or Content-Length bytes, whatever the method.
FramedBodyLen ==
    IF requestChunked(t.req)
    THEN (IF HasPrefix(afterHead, ChunkedA) THEN Len(ChunkedA) ELSE Len(ChunkedEmpty))
    ELSE IF t.req.ContentLength > 0 THEN t.req.ContentLength
    ELSE 0

\* C38: whenever the connection loop is about to prepare the next
\* transaction of a persistent connection, the stream stands at the first
\* byte after the previous request's complete message, header block and
\* framed body, also for a GET or HEAD request that declares a
\* Content-Length above zero.
C38_NextPrepareStartsAfterMessage ==
    (pc = "loop" /\ ret.op = "return" /\ t.req /= NoReq)
        => inp = Tail1(afterHead, FramedBodyLen + 1)


\* ---- chunked request body
ChunkedCase ==
    /\ t.req /= NoReq
    /\ t.req.Method \notin {sGET, sHEAD}
    /\ requestChunked(t.req)

\* The bytes the chunked body of the current request decodes to.
DecodedBody == IF HasPrefix(afterHead, ChunkedA) THEN <<"a">> ELSE <<>>

\* The handler has read the body to its end: the last call was a read, and
\* the reads have delivered every decoded byte, or EOF when there is none.
ReadToEnd ==
    /\ ret.op = "Read"
    /\ ~t.respondCalled
    /\ got = DecodedBody
    /\ DecodedBody = <<>> => ret.err = "EOF"

\* C32: once the handler has read a chunked body to its end, the whole
\* encoding with its zero-size chunk and trailer has been taken from the
\* stream, so that a pipelined request starts at the next byte, and
\* request-consumed is true, so that Respond does not force a close.
C32_ChunkedBodyReadToEndIsConsumed ==
    (ChunkedCase /\ ~t.hijacked /\ ReadToEnd)
        => /\ inp = Tail1(afterHead, FramedBodyLen + 1)
           /\ t.requestConsumed


\* ---- damaged chunk framing
\* The two bytes after the data of the first chunk are not CR LF.
WrongSeparator ==
    /\ HasPrefix(afterHead, ChunkOfA)
    /\ Len(afterHead) >= Len(ChunkOfA) + 2
    /\ SubSeq(afterHead, Len(ChunkOfA) + 1, Len(ChunkOfA) + 2) /= CRLF
\* The first chunk-size line is not a hexadecimal number.
BadSize == ~Btoui64(ReadLine(afterHead, inEnd).line).ok
\* The errors a read reports for damaged framing: the server's own and
\* the one of the number parser.
FramingErrors == {"bad chunked format", "strconv syntax"}

\* C33: when the two bytes after a chunk's data are not CR LF, or a
\* chunk-size line is not a hexadecimal number, reading the body runs into
\* a bad-format error and the body is not reported as consumed; a wrong
\* separator such as CR followed by a byte other than LF is never taken
\* for valid framing.
C33_DamagedFramingIsRefused ==
    (ChunkedCase /\ ret.op = "Read" /\ ~t.respondCalled /\ ~t.hijacked)
        => /\ BadSize => (ret.err \in FramingErrors /\ ~t.requestConsumed)
           /\ (WrongSeparator /\ got = <<"a">>)
              => (t.requestErr \in FramingErrors /\ ~t.requestConsumed)

=============================================================================
